---- MODULE Spec2Model ----
(***************************************************************************)
(* RISC-V translation core of tlib (arch/riscv/translate.c): the decoder,  *)
(* the per-instruction IR emitters and the translation-block driver,       *)
(* together with an evaluator of the emitted micro-ops over a guest state. *)
(*                                                                         *)
(* The build modelled is TARGET_RISCV64.  A guest word (target_ulong,      *)
(* TCGv, TCGv_i64) is held at its full width of 64 bits as four 16-bit     *)
(* limbs, least significant first, so that every mask, shift count and     *)
(* sign bit of the source keeps its value.  A 32-bit opcode word is held   *)
(* as its two 16-bit halves [lo, hi].                                      *)
(***************************************************************************)
EXTENDS Integers, Sequences, FiniteSets, TLC

VARIABLES env, env0, run, tb, ctx, phase, max_insns, job

vars == <<env, env0, run, tb, ctx, phase, max_insns, job>>

(***************************************************************************)
(* Guest words.                                                            *)
(***************************************************************************)
TARGET_LONG_BITS == 64

Limb == 65536

Pow2(n) == 2 ^ n

Zero == <<0, 0, 0, 0>>

One == <<1, 0, 0, 0>>

AllOnes == <<65535, 65535, 65535, 65535>>

INT_MIN_W == <<0, 0, 0, 32768>>

INT32_MIN_W == <<0, 32768, 65535, 65535>>

\* a non-negative integer below 2^31 as a word
FromNat(n) == <<n % Limb, n \div Limb, 0, 0>>

WNot(a) == <<65535 - a[1], 65535 - a[2], 65535 - a[3], 65535 - a[4]>>

WAdd(a, b) ==
    LET s1 == a[1] + b[1]
        s2 == a[2] + b[2] + (s1 \div Limb)
        s3 == a[3] + b[3] + (s2 \div Limb)
        s4 == a[4] + b[4] + (s3 \div Limb)
    IN  <<s1 % Limb, s2 % Limb, s3 % Limb, s4 % Limb>>

WNeg(a) == WAdd(WNot(a), One)

WSub(a, b) == WAdd(a, WNeg(b))

\* an integer of magnitude below 2^31 as a sign-extended word (target_long)
FromInt(n) == IF n >= 0 THEN FromNat(n) ELSE WNeg(FromNat(-n))

RECURSIVE LimbBits(_, _, _, _)
LimbBits(k, x, y, n) ==
    IF n = 0 THEN 0
    ELSE LET p == x % 2
             q == y % 2
             r == CASE k = "and" -> p * q
                    [] k = "or"  -> IF p + q > 0 THEN 1 ELSE 0
                    [] OTHER     -> (p + q) % 2
         IN  r + 2 * LimbBits(k, x \div 2, y \div 2, n - 1)

WBits(k, a, b) ==
    <<LimbBits(k, a[1], b[1], 16), LimbBits(k, a[2], b[2], 16),
      LimbBits(k, a[3], b[3], 16), LimbBits(k, a[4], b[4], 16)>>

WAnd(a, b) == WBits("and", a, b)

WOr(a, b) == WBits("or", a, b)

WXor(a, b) == WBits("xor", a, b)

\* bit i (0 = least significant) of a word
WBit(a, i) == (a[(i \div 16) + 1] \div Pow2(i % 16)) % 2

\* the low six bits of a word as a number: a host shift count in range
Low6(a) == a[1] % 64

WShl(a, s) ==
    LET q == s \div 16
        r == s % 16
        L(i) == IF i >= 1 THEN a[i] ELSE 0
        N(i) == ((L(i - q) % Pow2(16 - r)) * Pow2(r)) + (L(i - q - 1) \div Pow2(16 - r))
    IN  <<N(1), N(2), N(3), N(4)>>

\* fill is 0 (logical) or 65535 (arithmetic, negative operand)
WShrFill(a, s, fill) ==
    LET q == s \div 16
        r == s % 16
        L(i) == IF i <= 4 THEN a[i] ELSE fill
        N(i) == (L(i + q) \div Pow2(r)) + ((L(i + q + 1) % Pow2(r)) * Pow2(16 - r))
    IN  <<N(1), N(2), N(3), N(4)>>

WShr(a, s) == WShrFill(a, s, 0)

WSar(a, s) == WShrFill(a, s, IF a[4] >= 32768 THEN 65535 ELSE 0)

WLtu(a, b) ==
    \/ a[4] < b[4]
    \/ a[4] = b[4] /\ a[3] < b[3]
    \/ a[4] = b[4] /\ a[3] = b[3] /\ a[2] < b[2]
    \/ a[4] = b[4] /\ a[3] = b[3] /\ a[2] = b[2] /\ a[1] < b[1]

WNegative(a) == a[4] >= 32768

WLt(a, b) ==
    IF WNegative(a) # WNegative(b) THEN WNegative(a) ELSE WLtu(a, b)

Ext32s(a) ==
    LET f == IF a[2] >= 32768 THEN 65535 ELSE 0 IN <<a[1], a[2], f, f>>

Ext32u(a) == <<a[1], a[2], 0, 0>>

\* restoring long division of unsigned words, d # 0, over the dividend's bits
\* hi down to lo; qr is <<quotient so far, remainder so far>>
RECURSIVE UDivBits(_, _, _, _, _)
UDivBits(n, d, hi, lo, qr) ==
    IF hi = lo
    THEN LET r   == qr[2]
             bit == (n[(hi \div 16) + 1] \div Pow2(hi % 16)) % 2
             r2  == <<((r[1] % 32768) * 2) + bit,
                      ((r[2] % 32768) * 2) + (r[1] \div 32768),
                      ((r[3] % 32768) * 2) + (r[2] \div 32768),
                      ((r[4] % 32768) * 2) + (r[3] \div 32768)>>
         IN  IF r[4] >= 32768 \/ ~WLtu(r2, d)
             THEN <<[qr[1] EXCEPT ![(hi \div 16) + 1] = @ + Pow2(hi % 16)],
                    WAdd(r2, WNeg(d))>>
             ELSE <<qr[1], r2>>
    ELSE LET mid == (hi + lo + 1) \div 2
             up  == UDivBits(n, d, hi, mid, qr)
         IN  IF WLtu(up[2], d) THEN UDivBits(n, d, mid - 1, lo, up) ELSE up

WDivu(a, b) == UDivBits(a, b, 63, 0, <<Zero, Zero>>)[1]

WRemu(a, b) == UDivBits(a, b, 63, 0, <<Zero, Zero>>)[2]

WAbs(a) == IF WNegative(a) THEN WNeg(a) ELSE a

\* truncating signed division, b # 0 and not INT_MIN / -1
WDiv(a, b) ==
    LET q == WDivu(WAbs(a), WAbs(b))
    IN  IF WNegative(a) # WNegative(b) THEN WNeg(q) ELSE q

WRem(a, b) ==
    LET r == WRemu(WAbs(a), WAbs(b))
    IN  IF WNegative(a) THEN WNeg(r) ELSE r

\* product of two 16-bit limbs as <<low limb, high limb>>
LimbMul(x, y) ==
    LET p0 == (x % 256) * y
        p1 == (x \div 256) * y
        m  == p0 + (p1 % 256) * 256
    IN  <<m % Limb, (p1 \div 256) + (m \div Limb)>>

\* the unsigned 128-bit product of two words as eight limbs
WMulFull(a, b) ==
    LET P(i, j) == LimbMul(a[i], b[j])
        Col(k) == \* sum of the partial-product limbs of weight 16*(k-1)
            LET lows  == {<<i, j>> \in (1..4) \X (1..4) : i + j - 1 = k}
                highs == {<<i, j>> \in (1..4) \X (1..4) : i + j = k}
                RECURSIVE SumSet(_, _)
                SumSet(S, h) ==
                    IF S = {} THEN 0
                    ELSE LET x == CHOOSE y \in S : TRUE
                         IN  P(x[1], x[2])[h] + SumSet(S \ {x}, h)
            IN  SumSet(lows, 1) + SumSet(highs, 2)
        RECURSIVE Carry(_)
        Carry(k) == IF k = 0 THEN 0 ELSE (Col(k) + Carry(k - 1)) \div Limb
    IN  [k \in 1..8 |-> (Col(k) + Carry(k - 1)) % Limb]

WMul(a, b) == LET p == WMulFull(a, b) IN <<p[1], p[2], p[3], p[4]>>

WMulhu(a, b) == LET p == WMulFull(a, b) IN <<p[5], p[6], p[7], p[8]>>

\* upper word of the signed product: mulhu less the two sign corrections
WMulh(a, b) ==
    LET h  == WMulhu(a, b)
        h1 == IF WNegative(a) THEN WSub(h, b) ELSE h
    IN  IF WNegative(b) THEN WSub(h1, a) ELSE h1

(***************************************************************************)
(* Micro-ops.  An operand is a temporary (named as in the emitter that     *)
(* allocates it) or one of the globals translate_init registers; an        *)
(* instruction is the name of the tcg_gen_* call that emitted it with its  *)
(* arguments.  Immediate forms carry imm and leave b unused.               *)
(***************************************************************************)
T(name) == [k |-> name, n |-> 0]

NoArg == [k |-> "-", n |-> 0]

cpu_gpr(i) == [k |-> "gpr", n |-> i]

cpu_fpr(i) == [k |-> "fpr", n |-> i]

cpu_pc == [k |-> "pc", n |-> 0]

Ins(op, cond, d, a, b, imm, n) ==
    [op |-> op, cond |-> cond, d |-> d, a |-> a, b |-> b, c |-> NoArg, e |-> NoArg,
     imm |-> imm, n |-> n]

\* op d, a, b
G3(op, d, a, b) == Ins(op, "", d, a, b, Zero, 0)

\* op d, a, imm
GI(op, d, a, imm) == Ins(op, "", d, a, NoArg, imm, 0)

\* op d, a, b, c, e (movcond: d = a cond b ? c : e; mul2: d, a = b * c)
G5(op, cond, d, a, b, c, e) ==
    [op |-> op, cond |-> cond, d |-> d, a |-> a, b |-> b, c |-> c, e |-> e,
     imm |-> Zero, n |-> 0]

\* a helper call: result operand, up to four arguments, and a tag
\* (the exception raised by the raise_exception helpers)
Call(helper, tag, d, a, b, c, e) ==
    [op |-> helper, cond |-> tag, d |-> d, a |-> a, b |-> b, c |-> c, e |-> e,
     imm |-> Zero, n |-> 0]

TempNames ==
    {"source1", "source2", "cond1", "cond2", "zeroreg", "resultopt1", "t0", "t1",
     "dat", "rl", "rh", "rm_reg", "write_int_rd", "src1", "src2", "csr_store",
     "dest", "rs1_pass", "imm_rs1"}

\* the content of a temporary that no micro-op has written yet
Undef == <<0, 0, 0, -1>>

MSTATUS_FS == <<24576, 0, 0, 0>>

(***************************************************************************)
(* Guest memory as the memory helpers present it: 8-byte cells at aligned  *)
(* addresses; an access must be naturally aligned and fall in a mapped     *)
(* cell, otherwise the helper raises the fault.                            *)
(***************************************************************************)
SizeMask(size) ==
    CASE size = 1 -> <<255, 0, 0, 0>>
      [] size = 2 -> <<65535, 0, 0, 0>>
      [] size = 4 -> <<65535, 65535, 0, 0>>
      [] OTHER    -> AllOnes

CellOf(addr) == <<addr[1] - (addr[1] % 8), addr[2], addr[3], addr[4]>>

MemFault(mem, addr, size) ==
    IF (addr[1] % size) # 0 THEN "ADDR_MIS"
    ELSE IF CellOf(addr) \notin DOMAIN mem THEN "PAGE_FAULT"
    ELSE ""

MemRead(mem, addr, size) ==
    WAnd(WShr(mem[CellOf(addr)], 8 * (addr[1] % 8)), SizeMask(size))

MemWrite(mem, addr, size, v) ==
    LET sh   == 8 * (addr[1] % 8)
        keep == WAnd(mem[CellOf(addr)], WNot(WShl(SizeMask(size), sh)))
    IN  [mem EXCEPT ![CellOf(addr)] = WOr(keep, WShl(WAnd(v, SizeMask(size)), sh))]

SignExt(v, size) ==
    CASE size = 1 -> LET f == IF v[1] >= 128 THEN 65535 ELSE 0
                     IN  <<(v[1] % 256) + (IF v[1] >= 128 THEN 65280 ELSE 0), f, f, f>>
      [] size = 2 -> LET f == IF v[1] >= 32768 THEN 65535 ELSE 0 IN <<v[1], f, f, f>>
      [] size = 4 -> Ext32s(v)
      [] OTHER    -> v

(***************************************************************************)
(* Evaluation of a block's micro-ops on the guest state (what the host     *)
(* code generated from the IR does when the outer loop runs the block).    *)
(* m is [env, t, pc, halt, exit, ub, helpers]: the guest state, the        *)
(* temporaries, the index of the next micro-op, and the outcome so far.    *)
(***************************************************************************)
Machine(e) ==
    [env |-> e, t |-> [x \in TempNames |-> Undef], pc |-> 1, halt |-> FALSE,
     exit |-> "", ub |-> FALSE, helpers |-> <<>>]

IsGlobal(o) == o.k \in {"gpr", "fpr", "pc"}

ReadOp(m, o) ==
    CASE o.k = "gpr" -> m.env.gpr[o.n]
      [] o.k = "fpr" -> m.env.fpr[o.n]
      [] o.k = "pc"  -> m.env.pc
      [] o.k = "-"   -> Zero
      [] OTHER       -> m.t[o.k]

WriteOp(m, o, v) ==
    CASE o.k = "gpr" -> [m EXCEPT !.env.gpr[o.n] = v]
      [] o.k = "fpr" -> [m EXCEPT !.env.fpr[o.n] = v]
      [] o.k = "pc"  -> [m EXCEPT !.env.pc = v]
      [] o.k = "-"   -> m
      [] OTHER       -> [m EXCEPT !.t[o.k] = v]

\* cpu_gpr[0] is TCGV_UNUSED: a micro-op naming it has no defined meaning
UsesGpr0(i) == \E o \in {i.d, i.a, i.b, i.c, i.e} : o.k = "gpr" /\ o.n = 0

Sources(i) ==
    CASE i.op \in {"movi_tl", "movi_i64", "ld_tl", "br", "set_label", "goto_tb",
                   "exit_tb"} -> {}
      [] i.op \in {"muls2_tl", "mulu2_tl"} -> {i.b, i.c}
      [] OTHER -> {i.a, i.b, i.c, i.e}

Cond(cond, x, y) ==
    CASE cond = "EQ"  -> x = y
      [] cond = "NE"  -> x # y
      [] cond = "LT"  -> WLt(x, y)
      [] cond = "GE"  -> ~WLt(x, y)
      [] cond = "GT"  -> WLt(y, x)
      [] cond = "LTU" -> WLtu(x, y)
      [] cond = "GEU" -> ~WLtu(x, y)
      [] OTHER        -> WLtu(y, x)

Halt(m, how) == [m EXCEPT !.halt = TRUE, !.exit = how]

Trap(m) == [m EXCEPT !.halt = TRUE, !.ub = TRUE, !.exit = "undefined"]

Raise(m, excp) == Halt([m EXCEPT !.env.exception_index = excp], "exception")

Next1(m) == [m EXCEPT !.pc = @ + 1]

LabelAt(ir, l) == {j \in 1..Len(ir) : ir[j].op = "set_label" /\ ir[j].n = l}

InShiftRange(y) == y[2] = 0 /\ y[3] = 0 /\ y[4] = 0 /\ y[1] < TARGET_LONG_BITS

AccessSize(op) ==
    CASE op \in {"qemu_ld8s", "qemu_ld8u", "qemu_st8"} -> 1
      [] op \in {"qemu_ld16s", "qemu_ld16u", "qemu_st16"} -> 2
      [] op \in {"qemu_ld32s", "qemu_ld32u", "qemu_st32"} -> 4
      [] OTHER -> 8

\* the value an out-of-scope runtime helper returns: a fixed function of its
\* name's arguments, standing for the helper's own computation
HelperValue(args) ==
    WNot(WXor(WXor(args[1], WShl(args[2], 1)), WXor(WShl(args[3], 2), WShl(args[4], 3))))

Step(ir, m) ==
    IF m.halt \/ m.pc > Len(ir) THEN m
    ELSE
    LET i  == ir[m.pc]
        x  == ReadOp(m, i.a)
        y  == IF i.b = NoArg THEN i.imm ELSE ReadOp(m, i.b)
        Set(v) == Next1(WriteOp(m, i.d, v))
    IN
    IF UsesGpr0(i) \/ \E o \in Sources(i) : ~IsGlobal(o) /\ o.k # "-" /\ m.t[o.k] = Undef
    THEN Trap(m)
    ELSE
    CASE i.op \in {"movi_tl", "movi_i64"} -> Set(i.imm)
      [] i.op \in {"mov_tl", "mov_i64"} -> Set(x)
      [] i.op \in {"add_tl", "addi_tl"} -> Set(WAdd(x, y))
      [] i.op = "sub_tl" -> Set(WSub(x, y))
      [] i.op \in {"and_tl", "andi_tl", "andi_i64"} -> Set(WAnd(x, y))
      [] i.op \in {"or_tl", "ori_tl", "or_i64"} -> Set(WOr(x, y))
      [] i.op \in {"xor_tl", "xori_tl", "xor_i64"} -> Set(WXor(x, y))
      [] i.op = "not_i64" -> Set(WNot(x))
      [] i.op \in {"shl_tl", "shli_tl"} ->
            IF InShiftRange(y) THEN Set(WShl(x, y[1])) ELSE Trap(m)
      [] i.op \in {"shr_tl", "shri_tl"} ->
            IF InShiftRange(y) THEN Set(WShr(x, y[1])) ELSE Trap(m)
      [] i.op \in {"sar_tl", "sari_tl"} ->
            IF InShiftRange(y) THEN Set(WSar(x, y[1])) ELSE Trap(m)
      [] i.op = "ext32s_tl" -> Set(Ext32s(x))
      [] i.op = "ext32u_tl" -> Set(Ext32u(x))
      [] i.op = "mul_tl" -> Set(WMul(x, y))
      [] i.op = "muls2_tl" ->
            Next1(WriteOp(WriteOp(m, i.d, WMul(ReadOp(m, i.b), ReadOp(m, i.c))),
                          i.a, WMulh(ReadOp(m, i.b), ReadOp(m, i.c))))
      [] i.op = "mulu2_tl" ->
            Next1(WriteOp(WriteOp(m, i.d, WMul(ReadOp(m, i.b), ReadOp(m, i.c))),
                          i.a, WMulhu(ReadOp(m, i.b), ReadOp(m, i.c))))
      [] i.op \in {"div_tl", "rem_tl"} ->
            IF y = Zero \/ (x = INT_MIN_W /\ y = AllOnes) THEN Trap(m)
            ELSE Set(IF i.op = "div_tl" THEN WDiv(x, y) ELSE WRem(x, y))
      [] i.op \in {"divu_tl", "remu_tl"} ->
            IF y = Zero THEN Trap(m)
            ELSE Set(IF i.op = "divu_tl" THEN WDivu(x, y) ELSE WRemu(x, y))
      [] i.op \in {"setcond_tl", "setcondi_tl"} ->
            Set(IF Cond(i.cond, x, y) THEN One ELSE Zero)
      [] i.op = "movcond_tl" ->
            Set(IF Cond(i.cond, x, y) THEN ReadOp(m, i.c) ELSE ReadOp(m, i.e))
      [] i.op = "ld_tl" -> Set(m.env.mstatus)
      [] i.op \in {"qemu_ld8s", "qemu_ld16s", "qemu_ld32s", "qemu_ld8u", "qemu_ld16u",
                   "qemu_ld32u", "qemu_ld64"} ->
            LET f == MemFault(m.env.mem, x, AccessSize(i.op))
                v == MemRead(m.env.mem, x, AccessSize(i.op))
            IN  IF f # "" THEN Raise([m EXCEPT !.env.badaddr = x], "LOAD_" \o f)
                ELSE Set(IF i.op \in {"qemu_ld8s", "qemu_ld16s", "qemu_ld32s"}
                         THEN SignExt(v, AccessSize(i.op)) ELSE v)
      [] i.op \in {"qemu_st8", "qemu_st16", "qemu_st32", "qemu_st64"} ->
            \* d is the value stored, a the address
            LET f == MemFault(m.env.mem, x, AccessSize(i.op))
            IN  IF f # "" THEN Raise([m EXCEPT !.env.badaddr = x], "STORE_" \o f)
                ELSE Next1([m EXCEPT !.env.mem =
                               MemWrite(@, x, AccessSize(i.op), ReadOp(m, i.d))])
      [] i.op \in {"brcond_tl", "brcondi_tl"} ->
            IF ~Cond(i.cond, x, y) THEN Next1(m)
            ELSE IF LabelAt(ir, i.n) = {} THEN Trap(m)
            ELSE [m EXCEPT !.pc = CHOOSE j \in LabelAt(ir, i.n) : TRUE]
      [] i.op = "br" ->
            IF LabelAt(ir, i.n) = {} THEN Trap(m)
            ELSE [m EXCEPT !.pc = CHOOSE j \in LabelAt(ir, i.n) : TRUE]
      [] i.op \in {"set_label", "goto_tb"} -> Next1(m)
      [] i.op = "exit_tb" -> Halt(m, IF i.n = 0 THEN "exit_tb" ELSE "chained")
      [] i.op = "helper_raise_exception" -> Raise(m, i.cond)
      [] i.op = "helper_raise_exception_mbadaddr" ->
            Raise([m EXCEPT !.env.badaddr = ReadOp(m, i.b)], i.cond)
      [] i.op = "helper_raise_exception_debug" -> Raise(m, "EXCP_DEBUG")
      [] OTHER ->
            \* any other runtime helper: recorded, its result written to d
            LET args == <<ReadOp(m, i.a), ReadOp(m, i.b), ReadOp(m, i.c), ReadOp(m, i.e)>>
                m1   == [m EXCEPT !.helpers = Append(@, [h |-> i.op, args |-> args])]
            IN  Next1(WriteOp(m1, i.d, HelperValue(args)))

\* k steps from m, by halves so that the evaluation stays shallow
RECURSIVE Steps(_, _, _)
Steps(ir, k, m) ==
    IF k <= 1 THEN Step(ir, m)
    ELSE LET h == Steps(ir, k \div 2, m)
         IN  IF h.halt THEN h ELSE Steps(ir, k - (k \div 2), h)

\* branches only go forward, so Len(ir) steps run the block to its end
RunTB(ir, e) == Steps(ir, Len(ir), Machine(e))

(***************************************************************************)
(* Instruction encodings (instmap.h): an opcode or a masked opcode is the  *)
(* pair of its 16-bit halves.                                              *)
(***************************************************************************)
Opc(major, funct3, funct7) == [lo |-> major + (4096 * funct3), hi |-> 512 * funct7]

OPC_RISC_ADD == Opc(51, 0, 0)

OPC_RISC_SUB == Opc(51, 0, 32)

OPC_RISC_SLL == Opc(51, 1, 0)

OPC_RISC_SLT == Opc(51, 2, 0)

OPC_RISC_SLTU == Opc(51, 3, 0)

OPC_RISC_XOR == Opc(51, 4, 0)

OPC_RISC_SRL == Opc(51, 5, 0)

OPC_RISC_SRA == Opc(51, 5, 32)

OPC_RISC_OR == Opc(51, 6, 0)

OPC_RISC_AND == Opc(51, 7, 0)

OPC_RISC_MUL == Opc(51, 0, 1)

OPC_RISC_MULH == Opc(51, 1, 1)

OPC_RISC_MULHSU == Opc(51, 2, 1)

OPC_RISC_MULHU == Opc(51, 3, 1)

OPC_RISC_DIV == Opc(51, 4, 1)

OPC_RISC_DIVU == Opc(51, 5, 1)

OPC_RISC_REM == Opc(51, 6, 1)

OPC_RISC_REMU == Opc(51, 7, 1)

OPC_RISC_ADDW == Opc(59, 0, 0)

OPC_RISC_SUBW == Opc(59, 0, 32)

OPC_RISC_SLLW == Opc(59, 1, 0)

OPC_RISC_SRLW == Opc(59, 5, 0)

OPC_RISC_SRAW == Opc(59, 5, 32)

OPC_RISC_MULW == Opc(59, 0, 1)

OPC_RISC_DIVW == Opc(59, 4, 1)

OPC_RISC_DIVUW == Opc(59, 5, 1)

OPC_RISC_REMW == Opc(59, 6, 1)

OPC_RISC_REMUW == Opc(59, 7, 1)

OPC_RISC_ADDI == Opc(19, 0, 0)

OPC_RISC_SLTI == Opc(19, 2, 0)

OPC_RISC_SLTIU == Opc(19, 3, 0)

OPC_RISC_XORI == Opc(19, 4, 0)

OPC_RISC_ORI == Opc(19, 6, 0)

OPC_RISC_ANDI == Opc(19, 7, 0)

OPC_RISC_SLLI == Opc(19, 1, 0)

OPC_RISC_SHIFT_RIGHT_I == Opc(19, 5, 0)

OPC_RISC_ADDIW == Opc(27, 0, 0)

OPC_RISC_SLLIW == Opc(27, 1, 0)

OPC_RISC_SHIFT_RIGHT_IW == Opc(27, 5, 0)

OPC_RISC_LB == Opc(3, 0, 0)

OPC_RISC_LH == Opc(3, 1, 0)

OPC_RISC_LW == Opc(3, 2, 0)

OPC_RISC_LD == Opc(3, 3, 0)

OPC_RISC_LBU == Opc(3, 4, 0)

OPC_RISC_LHU == Opc(3, 5, 0)

OPC_RISC_LWU == Opc(3, 6, 0)

OPC_RISC_SB == Opc(35, 0, 0)

OPC_RISC_SH == Opc(35, 1, 0)

OPC_RISC_SW == Opc(35, 2, 0)

OPC_RISC_SD == Opc(35, 3, 0)

OPC_RISC_BEQ == Opc(99, 0, 0)

OPC_RISC_BNE == Opc(99, 1, 0)

OPC_RISC_BLT == Opc(99, 4, 0)

OPC_RISC_BGE == Opc(99, 5, 0)

OPC_RISC_BLTU == Opc(99, 6, 0)

OPC_RISC_BGEU == Opc(99, 7, 0)

OPC_RISC_JALR == Opc(103, 0, 0)

OPC_RISC_ECALL == Opc(115, 0, 0)

OPC_RISC_SYSTEM == Opc(115, 0, 0)

OPC_RISC_FLW == Opc(7, 2, 0)

OPC_RISC_FSW == Opc(39, 2, 0)

OPC_RISC_FLD == Opc(7, 3, 0)

OPC_RISC_FSD == Opc(39, 3, 0)

(***************************************************************************)
(* The translation context: DisasContext, the op buffer being filled, the  *)
(* temporaries currently allocated and the labels created so far.          *)
(***************************************************************************)
BS_NONE == 0

BS_STOP == 1

BS_BRANCH == 2

Emit(c, seq) == [c EXCEPT !.ir = @ \o seq]

tcg_temp_new(c, names) == [c EXCEPT !.live = @ \cup names]

\* a release that leaves the temporaries counted
tcg_temp_free_kept(c, names) == c

tcg_temp_free(c, names) == [c EXCEPT !.live = @ \ names]

gen_new_label(c) == [c EXCEPT !.labels = @ + 1]

generate_exception(c, excp) ==
    Emit(c, <<GI("movi_tl", cpu_pc, NoArg, c.pc),
              Call("helper_raise_exception", excp, NoArg, NoArg, NoArg, NoArg, NoArg)>>)

generate_exception_mbadaddr(c, excp) ==
    Emit(c, <<GI("movi_tl", cpu_pc, NoArg, c.pc),
              Call("helper_raise_exception_mbadaddr", excp, NoArg, NoArg, cpu_pc,
                   NoArg, NoArg)>>)

kill_unknown(c, excp) == [generate_exception(c, excp) EXCEPT !.bstate = BS_STOP]

gen_get_gpr(c, t, reg_num) ==
    IF reg_num = 0
    THEN Emit(c, <<GI("movi_tl", t, NoArg, Zero)>>)
    ELSE Emit(c, <<G3("mov_tl", t, cpu_gpr(reg_num), NoArg)>>)

\* gen_set_gpr without its test for register zero
gen_set_gpr_unchecked(c, reg_num_dst, t) ==
    Emit(c, <<G3("mov_tl", cpu_gpr(reg_num_dst), t, NoArg)>>)

gen_set_gpr(c, reg_num_dst, t) ==
    IF reg_num_dst # 0
    THEN Emit(c, <<G3("mov_tl", cpu_gpr(reg_num_dst), t, NoArg)>>)
    ELSE c

\* the upper word of the unsigned product, without the fix-up for a negative
\* first operand
gen_mulhsu_no_fixup(c, ret, arg1, arg2) ==
    LET rl == T("rl")
        rh == T("rh")
        c1 == tcg_temp_new(c, {"rl", "rh"})
        c2(cx) == Emit(cx, <<G5("mulu2_tl", "", rl, rh, arg1, arg2, NoArg),
                         G3("mov_tl", ret, rh, NoArg)>>)
    IN  tcg_temp_free(c2(c1), {"rl", "rh"})

gen_mulhsu(c, ret, arg1, arg2) ==
    LET rl == T("rl")
        rh == T("rh")
        c1 == tcg_temp_new(c, {"rl", "rh"})
        c2(cx) == Emit(cx, <<G5("mulu2_tl", "", rl, rh, arg1, arg2, NoArg),
                         GI("sari_tl", rl, arg1, FromNat(TARGET_LONG_BITS - 1)),
                         G3("and_tl", rl, rl, arg2),
                         G3("sub_tl", ret, rh, rl)>>)
    IN  tcg_temp_free(c2(c1), {"rl", "rh"})

\* gen_arith's signed division without the substitution of the divisor on
\* overflow (only division by zero is handled)
gen_arith_div_no_overflow(c, s1, s2) ==
    LET cond2 == T("cond2")
        zeroreg == T("zeroreg")
        resultopt1 == T("resultopt1")
        c1 == tcg_temp_new(c, {"cond1", "cond2", "zeroreg", "resultopt1"})
        c2(cx) == Emit(cx,
                <<GI("movi_tl", zeroreg, NoArg, Zero),
                  GI("movi_tl", resultopt1, NoArg, AllOnes),
                  Ins("setcondi_tl", "EQ", cond2, s2, NoArg, Zero, 0),
                  G5("movcond_tl", "EQ", s1, cond2, zeroreg, s1, resultopt1),
                  GI("movi_tl", resultopt1, NoArg, One),
                  G5("movcond_tl", "EQ", s2, cond2, zeroreg, s2, resultopt1),
                  G3("div_tl", s1, s1, s2)>>)
    IN  tcg_temp_free(c2(c1), {"cond1", "cond2", "zeroreg", "resultopt1"})

\* the DIV, DIVU, REM and REMU bodies of gen_arith, after the operands of
\* the W forms have been extended
gen_arith_div(c, s1, s2) ==
    LET cond1 == T("cond1")
        cond2 == T("cond2")
        zeroreg == T("zeroreg")
        resultopt1 == T("resultopt1")
        c1 == tcg_temp_new(c, {"cond1", "cond2", "zeroreg", "resultopt1"})
        c2(cx) == Emit(cx,
                <<GI("movi_tl", zeroreg, NoArg, Zero),
                  GI("movi_tl", resultopt1, NoArg, AllOnes),
                  Ins("setcondi_tl", "EQ", cond2, s2, NoArg, AllOnes, 0),
                  Ins("setcondi_tl", "EQ", cond1, s1, NoArg,
                      WShl(One, TARGET_LONG_BITS - 1), 0),
                  G3("and_tl", cond1, cond1, cond2),
                  Ins("setcondi_tl", "EQ", cond2, s2, NoArg, Zero, 0),
                  G5("movcond_tl", "EQ", s1, cond2, zeroreg, s1, resultopt1),
                  G3("or_tl", cond1, cond1, cond2),
                  GI("movi_tl", resultopt1, NoArg, One),
                  G5("movcond_tl", "EQ", s2, cond1, zeroreg, s2, resultopt1),
                  G3("div_tl", s1, s1, s2)>>)
    IN  tcg_temp_free(c2(c1), {"cond1", "cond2", "zeroreg", "resultopt1"})

gen_arith_divu(c, s1, s2) ==
    LET cond1 == T("cond1")
        zeroreg == T("zeroreg")
        resultopt1 == T("resultopt1")
        c1 == tcg_temp_new(c, {"cond1", "zeroreg", "resultopt1"})
        c2(cx) == Emit(cx,
                <<GI("movi_tl", zeroreg, NoArg, Zero),
                  Ins("setcondi_tl", "EQ", cond1, s2, NoArg, Zero, 0),
                  GI("movi_tl", resultopt1, NoArg, AllOnes),
                  G5("movcond_tl", "EQ", s1, cond1, zeroreg, s1, resultopt1),
                  GI("movi_tl", resultopt1, NoArg, One),
                  G5("movcond_tl", "EQ", s2, cond1, zeroreg, s2, resultopt1),
                  G3("divu_tl", s1, s1, s2)>>)
    IN  tcg_temp_free(c2(c1), {"cond1", "zeroreg", "resultopt1"})

gen_arith_rem(c, s1, s2) ==
    LET cond1 == T("cond1")
        cond2 == T("cond2")
        zeroreg == T("zeroreg")
        resultopt1 == T("resultopt1")
        c1 == tcg_temp_new(c, {"cond1", "cond2", "zeroreg", "resultopt1"})
        c2(cx) == Emit(cx,
                <<GI("movi_tl", zeroreg, NoArg, Zero),
                  GI("movi_tl", resultopt1, NoArg, One),
                  Ins("setcondi_tl", "EQ", cond2, s2, NoArg, AllOnes, 0),
                  Ins("setcondi_tl", "EQ", cond1, s1, NoArg,
                      WShl(One, TARGET_LONG_BITS - 1), 0),
                  G3("and_tl", cond2, cond1, cond2),
                  Ins("setcondi_tl", "EQ", cond1, s2, NoArg, Zero, 0),
                  G3("or_tl", cond2, cond1, cond2),
                  G5("movcond_tl", "EQ", s2, cond2, zeroreg, s2, resultopt1),
                  G3("rem_tl", resultopt1, s1, s2),
                  G5("movcond_tl", "EQ", s1, cond1, zeroreg, resultopt1, s1)>>)
    IN  tcg_temp_free(c2(c1), {"cond1", "cond2", "zeroreg", "resultopt1"})

gen_arith_remu(c, s1, s2) ==
    LET cond1 == T("cond1")
        zeroreg == T("zeroreg")
        resultopt1 == T("resultopt1")
        c1 == tcg_temp_new(c, {"cond1", "zeroreg", "resultopt1"})
        c2(cx) == Emit(cx,
                <<GI("movi_tl", zeroreg, NoArg, Zero),
                  GI("movi_tl", resultopt1, NoArg, One),
                  Ins("setcondi_tl", "EQ", cond1, s2, NoArg, Zero, 0),
                  G5("movcond_tl", "EQ", s2, cond1, zeroreg, s2, resultopt1),
                  G3("remu_tl", resultopt1, s1, s2),
                  G5("movcond_tl", "EQ", s1, cond1, zeroreg, resultopt1, s1)>>)
    IN  tcg_temp_free(c2(c1), {"cond1", "zeroreg", "resultopt1"})

\* a register shift that applies the count as it stands
gen_arith_shift_unmasked(op, s1, s2, mask) == <<G3(op, s1, s1, s2)>>

\* the register shifts of gen_arith: the count is masked, then applied
gen_arith_shift(op, s1, s2, mask) ==
    <<GI("andi_tl", s2, s2, FromNat(mask)), G3(op, s1, s1, s2)>>

gen_arith(c, opc, rd, rs1, rs2) ==
    LET s1 == T("source1")
        s2 == T("source2")
        c0 == gen_get_gpr(gen_get_gpr(tcg_temp_new(c, {"source1", "source2"}), s1, rs1),
                          s2, rs2)
        Shift(op, mask) == gen_arith_shift(op, s1, s2, mask)
        Ext(op) == <<G3(op, s1, s1, NoArg), G3(op, s2, s2, NoArg)>>
        c1(cx) ==
          CASE opc \in {OPC_RISC_ADD, OPC_RISC_ADDW} -> Emit(cx, <<G3("add_tl", s1, s1, s2)>>)
            [] opc \in {OPC_RISC_SUB, OPC_RISC_SUBW} -> Emit(cx, <<G3("sub_tl", s1, s1, s2)>>)
            [] opc = OPC_RISC_SLLW -> Emit(cx, Shift("shl_tl", 31))
            [] opc = OPC_RISC_SLL  -> Emit(cx, Shift("shl_tl", TARGET_LONG_BITS - 1))
            [] opc = OPC_RISC_SLT  -> Emit(cx, <<Ins("setcond_tl", "LT", s1, s1, s2, Zero, 0)>>)
            [] opc = OPC_RISC_SLTU -> Emit(cx, <<Ins("setcond_tl", "LTU", s1, s1, s2, Zero, 0)>>)
            [] opc = OPC_RISC_XOR  -> Emit(cx, <<G3("xor_tl", s1, s1, s2)>>)
            [] opc = OPC_RISC_SRLW ->
                 Emit(cx, <<G3("ext32u_tl", s1, s1, NoArg)>> \o Shift("shr_tl", 31))
            [] opc = OPC_RISC_SRL  -> Emit(cx, Shift("shr_tl", TARGET_LONG_BITS - 1))
            [] opc = OPC_RISC_SRAW ->
                 Emit(cx, <<G3("ext32s_tl", s1, s1, NoArg)>> \o Shift("sar_tl", 31))
            [] opc = OPC_RISC_SRA  -> Emit(cx, Shift("sar_tl", TARGET_LONG_BITS - 1))
            [] opc = OPC_RISC_OR   -> Emit(cx, <<G3("or_tl", s1, s1, s2)>>)
            [] opc = OPC_RISC_AND  -> Emit(cx, <<G3("and_tl", s1, s1, s2)>>)
            [] opc \in {OPC_RISC_MUL, OPC_RISC_MULW} -> Emit(cx, <<G3("mul_tl", s1, s1, s2)>>)
            [] opc = OPC_RISC_MULH -> Emit(cx, <<G5("muls2_tl", "", s2, s1, s1, s2, NoArg)>>)
            [] opc = OPC_RISC_MULHSU -> gen_mulhsu(cx, s1, s1, s2)
            [] opc = OPC_RISC_MULHU -> Emit(cx, <<G5("mulu2_tl", "", s2, s1, s1, s2, NoArg)>>)
            [] opc = OPC_RISC_DIVW -> gen_arith_div(Emit(cx, Ext("ext32s_tl")), s1, s2)
            [] opc = OPC_RISC_DIV  -> gen_arith_div(cx, s1, s2)
            [] opc = OPC_RISC_DIVUW -> gen_arith_divu(Emit(cx, Ext("ext32u_tl")), s1, s2)
            [] opc = OPC_RISC_DIVU -> gen_arith_divu(cx, s1, s2)
            [] opc = OPC_RISC_REMW -> gen_arith_rem(Emit(cx, Ext("ext32s_tl")), s1, s2)
            [] opc = OPC_RISC_REM  -> gen_arith_rem(cx, s1, s2)
            [] opc = OPC_RISC_REMUW -> gen_arith_remu(Emit(cx, Ext("ext32u_tl")), s1, s2)
            [] opc = OPC_RISC_REMU -> gen_arith_remu(cx, s1, s2)
            [] OTHER -> kill_unknown(cx, "ILLEGAL_INST")
        c2(cx) == IF (opc.lo \div 8) % 2 = 1
              THEN Emit(cx, <<G3("ext32s_tl", s1, s1, NoArg)>>)
              ELSE cx
    IN  tcg_temp_free(gen_set_gpr(c2(c1(c0)), rd, s1), {"source1", "source2"})

TARGET_PAGE_SIZE == 4096

\* x & TARGET_PAGE_MASK
PageOf(x) == <<x[1] - (x[1] % TARGET_PAGE_SIZE), x[2], x[3], x[4]>>

riscv_has_ext(e, ext) == ext \in e.misa

use_goto_tb(c, dest) ==
    IF c.singlestep_enabled # 0 THEN FALSE ELSE PageOf(c.tb_pc) = PageOf(dest)

\* exit_tb's argument is 0, or the block's address plus the jump slot n (n + 1 here)
gen_exit_tb(val) == Ins("exit_tb", "", NoArg, NoArg, NoArg, Zero, val)

gen_goto_tb(c, n, dest) ==
    IF use_goto_tb(c, dest)
    THEN Emit(c, <<Ins("goto_tb", "", NoArg, NoArg, NoArg, Zero, n),
                   GI("movi_tl", cpu_pc, NoArg, dest),
                   gen_exit_tb(n + 1)>>)
    ELSE Emit(c, <<GI("movi_tl", cpu_pc, NoArg, dest)>>
                 \o (IF c.singlestep_enabled # 0
                     THEN <<Call("helper_raise_exception_debug", "", NoArg, NoArg, NoArg,
                                 NoArg, NoArg)>>
                     ELSE <<>>)
                 \o <<gen_exit_tb(0)>>)

gen_arith_imm(c, opc, rd, rs1, imm) ==
    LET s1 == T("source1")
        c0 == gen_get_gpr(tcg_temp_new(c, {"source1"}), s1, rs1)
        low10 == imm[1] % 1024
        sra == (imm[1] \div 1024) % 2 = 1
        slli(cx) ==
            IF WLt(imm, FromNat(TARGET_LONG_BITS))
            THEN Emit(cx, <<GI("shli_tl", s1, s1, imm)>>)
            ELSE kill_unknown(cx, "ILLEGAL_INST")
        shift_right(cx, extra_shamt) ==
            IF low10 < TARGET_LONG_BITS
            THEN IF sra
                 THEN Emit(cx, <<GI("sari_tl", s1, s1,
                                    WAdd(WXor(imm, FromNat(1024)), FromNat(extra_shamt)))>>)
                 ELSE Emit(cx, <<GI("shri_tl", s1, s1, WAdd(imm, FromNat(extra_shamt)))>>)
            ELSE kill_unknown(cx, "ILLEGAL_INST")
        c1(cx) ==
          CASE opc \in {OPC_RISC_ADDI, OPC_RISC_ADDIW} -> Emit(cx, <<GI("addi_tl", s1, s1, imm)>>)
            [] opc = OPC_RISC_SLTI -> Emit(cx, <<Ins("setcondi_tl", "LT", s1, s1, NoArg, imm, 0)>>)
            [] opc = OPC_RISC_SLTIU -> Emit(cx, <<Ins("setcondi_tl", "LTU", s1, s1, NoArg, imm, 0)>>)
            [] opc = OPC_RISC_XORI -> Emit(cx, <<GI("xori_tl", s1, s1, imm)>>)
            [] opc = OPC_RISC_ORI -> Emit(cx, <<GI("ori_tl", s1, s1, imm)>>)
            [] opc = OPC_RISC_ANDI -> Emit(cx, <<GI("andi_tl", s1, s1, imm)>>)
            [] opc = OPC_RISC_SLLIW ->
                 IF ~WLt(imm, FromNat(32)) THEN kill_unknown(cx, "ILLEGAL_INST")
                 ELSE slli(cx)
            [] opc = OPC_RISC_SLLI -> slli(cx)
            [] opc = OPC_RISC_SHIFT_RIGHT_IW ->
                 shift_right(Emit(IF low10 >= 32 THEN kill_unknown(cx, "ILLEGAL_INST")
                                  ELSE cx,
                                  <<GI("shli_tl", s1, s1, FromNat(32))>>), 32)
            [] opc = OPC_RISC_SHIFT_RIGHT_I -> shift_right(cx, 0)
            [] OTHER -> kill_unknown(cx, "ILLEGAL_INST")
        c2(cx) == IF (opc.lo \div 8) % 2 = 1
              THEN Emit(cx, <<G3("ext32s_tl", s1, s1, NoArg)>>)
              ELSE cx
    IN  tcg_temp_free(gen_set_gpr(c2(c1(c0)), rd, s1), {"source1"})

gen_jal(e, c, rd, imm) ==
    LET next_pc == WAdd(c.pc, imm)
        c1 == IF ~riscv_has_ext(e, "C") /\ (next_pc[1] % 4) # 0
              THEN generate_exception_mbadaddr(c, "INST_ADDR_MIS")
              ELSE c
        c2(cx) == IF rd # 0
              THEN Emit(cx, <<GI("movi_tl", cpu_gpr(rd), NoArg, c.next_pc)>>)
              ELSE cx
    IN  [gen_goto_tb(c2(c1), 0, WAdd(c.pc, imm)) EXCEPT !.bstate = BS_BRANCH]

gen_jalr(e, c, opc, rd, rs1, imm) ==
    LET c0 == tcg_temp_new(gen_new_label(c), {"t0"})
        misaligned == c0.labels
        t0 == T("t0")
        c1 == Emit(gen_get_gpr(c0, cpu_pc, rs1),
                   <<GI("addi_tl", cpu_pc, cpu_pc, imm),
                     GI("andi_tl", cpu_pc, cpu_pc, FromInt(-2))>>)
        c2(cx) == IF ~riscv_has_ext(e, "C")
              THEN Emit(cx, <<GI("andi_tl", t0, cpu_pc, FromNat(2)),
                              Ins("brcondi_tl", "NE", NoArg, t0, NoArg, Zero, misaligned)>>)
              ELSE cx
        c3(cx) == IF rd # 0
              THEN Emit(cx, <<GI("movi_tl", cpu_gpr(rd), NoArg, c.next_pc)>>)
              ELSE cx
        c4(cx) == Emit(cx, <<gen_exit_tb(0),
                         Ins("set_label", "", NoArg, NoArg, NoArg, Zero, misaligned)>>)
        c5(cx) == Emit(generate_exception_mbadaddr(cx, "INST_ADDR_MIS"), <<gen_exit_tb(0)>>)
    IN  tcg_temp_free(IF opc = OPC_RISC_JALR
                      THEN [c5(c4(c3(c2(c1)))) EXCEPT !.bstate = BS_BRANCH]
                      ELSE kill_unknown(c0, "ILLEGAL_INST"),
                      {"t0"})

gen_branch(e, c, opc, rs1, rs2, bimm) ==
    LET c0 == tcg_temp_new(gen_new_label(c), {"source1", "source2"})
        l  == c0.labels
        s1 == T("source1")
        s2 == T("source2")
        c1 == gen_get_gpr(gen_get_gpr(c0, s1, rs1), s2, rs2)
        br(cond) == Emit(c1, <<Ins("brcond_tl", cond, NoArg, s1, s2, Zero, l)>>)
        c2(cx) == CASE opc = OPC_RISC_BEQ -> br("EQ")
                [] opc = OPC_RISC_BNE -> br("NE")
                [] opc = OPC_RISC_BLT -> br("LT")
                [] opc = OPC_RISC_BGE -> br("GE")
                [] opc = OPC_RISC_BLTU -> br("LTU")
                [] opc = OPC_RISC_BGEU -> br("GEU")
                [] OTHER -> kill_unknown(cx, "ILLEGAL_INST")
        c3(cx) == Emit(gen_goto_tb(cx, 1, c.next_pc),
                   <<Ins("set_label", "", NoArg, NoArg, NoArg, Zero, l)>>)
        c4(cx) == IF ~riscv_has_ext(e, "C") /\ (WAdd(c.pc, bimm)[1] % 4) # 0
              THEN Emit(generate_exception_mbadaddr(cx, "INST_ADDR_MIS"), <<gen_exit_tb(0)>>)
              ELSE gen_goto_tb(cx, 0, WAdd(c.pc, bimm))
    IN  [tcg_temp_free(c4(c3(c2(c1))), {"source1", "source2"}) EXCEPT !.bstate = BS_BRANCH]

gen_load(c, opc, rd, rs1, imm) ==
    LET t0 == T("t0")
        t1 == T("t1")
        c1 == Emit(gen_get_gpr(tcg_temp_new(c, {"t0", "t1"}), t0, rs1),
                   <<GI("addi_tl", t0, t0, imm), GI("movi_tl", cpu_pc, NoArg, c.pc)>>)
        ld(op) == Emit(c1, <<G3(op, t1, t0, NoArg)>>)
        c2(cx) == CASE opc = OPC_RISC_LB -> ld("qemu_ld8s")
                [] opc = OPC_RISC_LH -> ld("qemu_ld16s")
                [] opc = OPC_RISC_LW -> ld("qemu_ld32s")
                [] opc = OPC_RISC_LD -> ld("qemu_ld64")
                [] opc = OPC_RISC_LBU -> ld("qemu_ld8u")
                [] opc = OPC_RISC_LHU -> ld("qemu_ld16u")
                [] opc = OPC_RISC_LWU -> ld("qemu_ld32u")
                [] OTHER -> kill_unknown(cx, "ILLEGAL_INST")
    IN  tcg_temp_free(gen_set_gpr(c2(c1), rd, t1), {"t0", "t1"})

gen_store(c, opc, rs1, rs2, imm) ==
    LET t0 == T("t0")
        dat == T("dat")
        c0 == tcg_temp_new(Emit(c, <<GI("movi_tl", cpu_pc, NoArg, c.pc)>>), {"t0", "dat"})
        c1(cx) == gen_get_gpr(Emit(gen_get_gpr(cx, t0, rs1), <<GI("addi_tl", t0, t0, imm)>>),
                          dat, rs2)
        st(op) == Emit(c1(c0), <<G3(op, dat, t0, NoArg)>>)
        c2(cx) == CASE opc = OPC_RISC_SB -> st("qemu_st8")
                [] opc = OPC_RISC_SH -> st("qemu_st16")
                [] opc = OPC_RISC_SW -> st("qemu_st32")
                [] opc = OPC_RISC_SD -> st("qemu_st64")
                [] OTHER -> kill_unknown(cx, "ILLEGAL_INST")
    IN  tcg_temp_free(c2(c1(c0)), {"t0", "dat"})

\* the check of mstatus.FS that opens a guarded FP translator: t receives the
\* FS field; labels fp_ok and done are the two created here
gen_fs_gate(c, t) ==
    LET c0 == gen_new_label(gen_new_label(c))
        fp_ok == c.labels + 1
        done == c.labels + 2
        c1 == Emit(c0, <<Ins("ld_tl", "mstatus", t, NoArg, NoArg, Zero, 0),
                         GI("andi_tl", t, t, MSTATUS_FS),
                         Ins("brcondi_tl", "NE", NoArg, t, NoArg, Zero, fp_ok)>>)
    IN  Emit(kill_unknown(c1, "ILLEGAL_INST"),
             <<Ins("br", "", NoArg, NoArg, NoArg, Zero, done),
               Ins("set_label", "", NoArg, NoArg, NoArg, Zero, fp_ok)>>)

gen_set_label(c, l) == Emit(c, <<Ins("set_label", "", NoArg, NoArg, NoArg, Zero, l)>>)

gen_fsgnj(c, rd, rs1, rs2, rm, min) ==
    LET src1 == T("src1")
        src2 == T("src2")
        c0 == gen_fs_gate(tcg_temp_new(c, {"t0"}), T("t0"))
        c1(cx) == Emit(tcg_temp_new(cx, {"src1", "src2"}),
                   <<G3("mov_i64", src1, cpu_fpr(rs1), NoArg),
                     G3("mov_i64", src2, cpu_fpr(rs2), NoArg)>>)
        c2(cx) == CASE rm = 0 ->
                   Emit(cx, (IF rs1 = rs2 THEN <<G3("mov_i64", cpu_fpr(rd), src1, NoArg)>>
                             ELSE <<>>)
                            \o <<GI("andi_i64", src1, src1, WNot(min)),
                                 GI("andi_i64", src2, src2, min),
                                 G3("or_i64", cpu_fpr(rd), src1, src2)>>)
                [] rm = 1 ->
                   Emit(cx, <<GI("andi_i64", src1, src1, WNot(min)),
                              G3("not_i64", src2, src2, NoArg),
                              GI("andi_i64", src2, src2, min),
                              G3("or_i64", cpu_fpr(rd), src1, src2)>>)
                [] rm = 2 ->
                   Emit(cx, <<GI("andi_i64", src2, src2, min),
                              G3("xor_i64", cpu_fpr(rd), src1, src2)>>)
                [] OTHER -> kill_unknown(cx, "ILLEGAL_INST")
    IN  tcg_temp_free(gen_set_label(tcg_temp_free(c2(c1(c0)), {"src1", "src2"}), c0.labels), {"t0"})

gen_fp_load(c, opc, rd, rs1, imm) ==
    LET t0 == T("t0")
        c0 == gen_fs_gate(tcg_temp_new(c, {"t0"}), t0)
        c1(cx) == Emit(gen_get_gpr(cx, t0, rs1), <<GI("addi_tl", t0, t0, imm)>>)
        c2(cx) == CASE opc = OPC_RISC_FLW -> Emit(cx, <<G3("qemu_ld32u", cpu_fpr(rd), t0, NoArg)>>)
                [] opc = OPC_RISC_FLD -> Emit(cx, <<G3("qemu_ld64", cpu_fpr(rd), t0, NoArg)>>)
                [] OTHER -> kill_unknown(cx, "ILLEGAL_INST")
    IN  tcg_temp_free(gen_set_label(c2(c1(c0)), c0.labels), {"t0"})

gen_fp_store(c, opc, rs1, rs2, imm) ==
    LET t0 == T("t0")
        c0 == gen_fs_gate(tcg_temp_new(c, {"t0", "t1"}), t0)
        c1(cx) == Emit(gen_get_gpr(cx, t0, rs1), <<GI("addi_tl", t0, t0, imm)>>)
        c2(cx) == CASE opc = OPC_RISC_FSW -> Emit(cx, <<G3("qemu_st32", cpu_fpr(rs2), t0, NoArg)>>)
                [] opc = OPC_RISC_FSD -> Emit(cx, <<G3("qemu_st64", cpu_fpr(rs2), t0, NoArg)>>)
                [] OTHER -> kill_unknown(cx, "ILLEGAL_INST")
    IN  tcg_temp_free(gen_set_label(c2(c1(c0)), c0.labels), {"t0", "t1"})

\* the four fused multiply-add translators differ in the helper they call:
\* name is the emitter (gen_fp_fmadd, gen_fp_fmsub, gen_fp_fnmsub, gen_fp_fnmadd);
\* opc carries the format in bits 25-26
fused_helper ==
    [gen_fp_fmadd |-> "helper_fmadd", gen_fp_fmsub |-> "helper_fmsub",
     gen_fp_fnmsub |-> "helper_fnmsub", gen_fp_fnmadd |-> "helper_fnmadd"]

gen_fp_fused(c, name, opc, rd, rs1, rs2, rs3, rm) ==
    LET rm_reg == T("rm_reg")
        c0 == Emit(tcg_temp_new(c, {"rm_reg"}), <<GI("movi_i64", rm_reg, NoArg, FromNat(rm))>>)
        fmt == opc.hi \div 512
        helper(sfx) == Call(fused_helper[name] \o sfx, "", cpu_fpr(rd), cpu_fpr(rs1),
                            cpu_fpr(rs2), cpu_fpr(rs3), rm_reg)
        c1(cx) == CASE fmt = 0 -> Emit(cx, <<helper("_s")>>)
                [] fmt = 1 -> Emit(cx, <<helper("_d")>>)
                [] OTHER -> kill_unknown(cx, "ILLEGAL_INST")
    IN  tcg_temp_free(c1(c0), {"rm_reg"})

\* gen_fp_arith; funct7 (bits 25-31 of opc) selects the operation, its low
\* bit the format (0 single, 1 double)
gen_fp_arith(c, opc, rd, rs1, rs2, rm) ==
    LET rm_reg == T("rm_reg")
        w  == T("write_int_rd")
        f7 == opc.hi \div 512
        sfx == IF f7 % 2 = 0 THEN "_s" ELSE "_d"
        c0 == Emit(tcg_temp_new(c, {"rm_reg", "write_int_rd"}),
                   <<GI("movi_i64", rm_reg, NoArg, FromNat(rm))>>)
        H(name, d, a, b, x) == Call("helper_" \o name, "", d, a, b, x, NoArg)
        fd == cpu_fpr(rd)
        f1 == cpu_fpr(rs1)
        f2 == cpu_fpr(rs2)
        bin(name) == Emit(c0, <<H(name \o sfx, fd, f1, f2, rm_reg)>>)
        kill == kill_unknown(c0, "ILLEGAL_INST")
        cvt_names(to_int) ==
            IF to_int THEN <<"fcvt_w", "fcvt_wu", "fcvt_l", "fcvt_lu">>
            ELSE IF f7 % 2 = 0
                 THEN <<"fcvt_s_w", "fcvt_s_wu", "fcvt_s_l", "fcvt_s_lu">>
                 ELSE <<"fcvt_d_w", "fcvt_d_wu", "fcvt_d_l", "fcvt_d_lu">>
        cg == gen_get_gpr(c0, w, rs1)
        gate == gen_fs_gate(c0, w)
        c1(cx) ==
          CASE f7 \in {0, 1} -> bin("fadd")
            [] f7 \in {4, 5} -> bin("fsub")
            [] f7 \in {8, 9} -> bin("fmul")
            [] f7 \in {12, 13} -> bin("fdiv")
            [] f7 = 16 -> gen_fsgnj(cx, rd, rs1, rs2, rm, INT32_MIN_W)
            [] f7 = 17 -> gen_fsgnj(cx, rd, rs1, rs2, rm, INT_MIN_W)
            [] f7 \in {20, 21} ->
                 IF rm = 0 THEN Emit(cx, <<H("fmin" \o sfx, fd, f1, f2, NoArg)>>)
                 ELSE IF rm = 1 THEN Emit(cx, <<H("fmax" \o sfx, fd, f1, f2, NoArg)>>)
                 ELSE kill
            [] f7 \in {44, 45} -> Emit(cx, <<H("fsqrt" \o sfx, fd, f1, rm_reg, NoArg)>>)
            [] f7 \in {80, 81} ->
                 gen_set_gpr(
                   IF rm = 0 THEN Emit(cx, <<H("fle" \o sfx, w, f1, f2, NoArg)>>)
                   ELSE IF rm = 1 THEN Emit(cx, <<H("flt" \o sfx, w, f1, f2, NoArg)>>)
                   ELSE IF rm = 2 THEN Emit(cx, <<H("feq" \o sfx, w, f1, f2, NoArg)>>)
                   ELSE kill, rd, w)
            [] f7 \in {96, 97} ->
                 gen_set_gpr(
                   IF rs2 \in 0..3
                   THEN Emit(cx, <<H(cvt_names(TRUE)[rs2 + 1] \o sfx, w, f1, rm_reg, NoArg)>>)
                   ELSE kill, rd, w)
            [] f7 \in {104, 105} ->
                 IF rs2 \in 0..3
                 THEN Emit(cg, <<H(cvt_names(FALSE)[rs2 + 1], fd, w, rm_reg, NoArg)>>)
                 ELSE kill_unknown(cg, "ILLEGAL_INST")
            [] f7 = 32 ->
                 IF rs2 = 1 THEN Emit(cx, <<H("fcvt_s_d", fd, f1, rm_reg, NoArg)>>) ELSE kill
            [] f7 = 33 ->
                 IF rs2 = 0 THEN Emit(cx, <<H("fcvt_d_s", fd, f1, rm_reg, NoArg)>>) ELSE kill
            [] f7 \in {112, 113} ->
                 gen_set_label(
                   gen_set_gpr(
                     IF rm = 0
                     THEN Emit(gate, <<G3(IF f7 = 112 THEN "ext32s_tl" ELSE "mov_tl",
                                          w, f1, NoArg)>>)
                     ELSE IF rm = 1
                     THEN Emit(gate, <<H("fclass" \o sfx, w, f1, NoArg, NoArg)>>)
                     ELSE kill_unknown(gate, "ILLEGAL_INST"), rd, w),
                   gate.labels)
            [] f7 \in {120, 121} ->
                 gen_set_label(Emit(gen_get_gpr(gate, w, rs1),
                                    <<G3("mov_tl", fd, w, NoArg)>>), gate.labels)
            [] OTHER -> kill
    IN  tcg_temp_free(c1(c0), {"rm_reg", "write_int_rd"})

\* the emitter with an SC that fails for want of a reservation
gen_atomic_sc_needs_lr(c, opc, rd, rs1, rs2) ==
    LET f5 == opc.hi \div 2048
        f3 == opc.lo \div 4096
        s1 == T("source1")
        s2 == T("source2")
        dat == T("dat")
        c0 == tcg_temp_new(gen_new_label(tcg_temp_new(c, {"source1", "source2"})), {"dat"})
        done == c0.labels
        c1(cx) == gen_get_gpr(gen_get_gpr(cx, s1, rs1), s2, rs2)
        ld == G3(IF f3 = 2 THEN "qemu_ld32s" ELSE "qemu_ld64", dat, s1, NoArg)
        st == G3(IF f3 = 2 THEN "qemu_st32" ELSE "qemu_st64", s2, s1, NoArg)
        mv == G3("mov_tl", s1, dat, NoArg)
        rmw(op) == Emit(c1(c0), <<ld, G3(op, s2, dat, s2), st, mv>>)
        sel(cond) == Emit(c1(c0), <<ld, Ins("brcond_tl", cond, NoArg, dat, s2, Zero, done), st>>)
        c2(cx) == IF f3 \notin {2, 3} THEN kill_unknown(cx, "ILLEGAL_INST")
              ELSE CASE f5 = 2 -> Emit(cx, <<ld>>)
                     [] f5 = 3 -> Emit(cx, <<GI("movi_tl", dat, NoArg, One)>>)
                     [] f5 = 1 -> Emit(cx, <<ld, st, mv>>)
                     [] f5 = 0 -> rmw("add_tl")
                     [] f5 = 4 -> rmw("xor_tl")
                     [] f5 = 12 -> rmw("and_tl")
                     [] f5 = 8 -> rmw("or_tl")
                     [] f5 = 16 -> sel("LT")
                     [] f5 = 20 -> sel("GT")
                     [] f5 = 24 -> sel("LTU")
                     [] f5 = 28 -> sel("GTU")
                     [] OTHER -> kill_unknown(cx, "ILLEGAL_INST")
    IN  tcg_temp_free(gen_set_gpr(gen_set_label(c2(c1(c0)), done), rd, dat),
                      {"source1", "source2", "dat"})

\* gen_atomic; after the aq and rl bits are dropped, funct5 (bits 27-31 of
\* opc) selects the operation and funct3 the width (2 word, 3 doubleword)
gen_atomic(c, opc, rd, rs1, rs2) ==
    LET f5 == opc.hi \div 2048
        f3 == opc.lo \div 4096
        s1 == T("source1")
        s2 == T("source2")
        dat == T("dat")
        c0 == tcg_temp_new(gen_new_label(tcg_temp_new(c, {"source1", "source2"})), {"dat"})
        done == c0.labels
        c1(cx) == gen_get_gpr(gen_get_gpr(cx, s1, rs1), s2, rs2)
        ld == G3(IF f3 = 2 THEN "qemu_ld32s" ELSE "qemu_ld64", dat, s1, NoArg)
        st == G3(IF f3 = 2 THEN "qemu_st32" ELSE "qemu_st64", s2, s1, NoArg)
        mv == G3("mov_tl", s1, dat, NoArg)
        rmw(op) == Emit(c1(c0), <<ld, G3(op, s2, dat, s2), st, mv>>)
        sel(cond) == Emit(c1(c0), <<ld, Ins("brcond_tl", cond, NoArg, dat, s2, Zero, done), st>>)
        c2(cx) == IF f3 \notin {2, 3} THEN kill_unknown(cx, "ILLEGAL_INST")
              ELSE CASE f5 = 2 -> Emit(cx, <<ld>>)
                     [] f5 = 3 -> Emit(cx, <<st, GI("movi_tl", dat, NoArg, Zero)>>)
                     [] f5 = 1 -> Emit(cx, <<ld, st, mv>>)
                     [] f5 = 0 -> rmw("add_tl")
                     [] f5 = 4 -> rmw("xor_tl")
                     [] f5 = 12 -> rmw("and_tl")
                     [] f5 = 8 -> rmw("or_tl")
                     [] f5 = 16 -> sel("LT")
                     [] f5 = 20 -> sel("GT")
                     [] f5 = 24 -> sel("LTU")
                     [] f5 = 28 -> sel("GTU")
                     [] OTHER -> kill_unknown(cx, "ILLEGAL_INST")
    IN  tcg_temp_free(gen_set_gpr(gen_set_label(c2(c1(c0)), done), rd, dat),
                      {"source1", "source2", "dat"})

gen_system(c, opc, rd, rs1, csr) ==
    LET f3 == opc.lo \div 4096
        source1 == T("source1")
        csr_store == T("csr_store")
        dest == T("dest")
        rs1_pass == T("rs1_pass")
        imm_rs1 == T("imm_rs1")
        temps == {"source1", "csr_store", "dest", "rs1_pass", "imm_rs1"}
        c0 == Emit(gen_get_gpr(tcg_temp_new(c, temps), source1, rs1),
                   <<GI("movi_tl", cpu_pc, NoArg, c.pc),
                     GI("movi_tl", rs1_pass, NoArg, FromNat(rs1)),
                     GI("movi_tl", csr_store, NoArg, FromNat(csr))>>)
        leave(cx) == [Emit(cx, <<gen_exit_tb(0)>>) EXCEPT !.bstate = BS_BRANCH]
        H(name, d, a, b, x) == Call("helper_" \o name, "", d, a, b, x, NoArg)
        priv ==
          CASE csr = 0 -> leave(generate_exception(c0, "U_ECALL"))
            [] csr = 1 -> leave(generate_exception(c0, "BREAKPOINT"))
            [] csr = 258 -> leave(Emit(c0, <<H("sret", cpu_pc, cpu_pc, NoArg, NoArg)>>))
            [] csr = 770 -> leave(Emit(c0, <<H("mret", cpu_pc, cpu_pc, NoArg, NoArg)>>))
            [] csr = 261 -> Emit(c0, <<GI("movi_tl", cpu_pc, NoArg, c.next_pc),
                                      H("wfi", NoArg, NoArg, NoArg, NoArg)>>)
            [] csr \in {260, 288} -> Emit(c0, <<H("tlb_flush", NoArg, NoArg, NoArg, NoArg)>>)
            [] OTHER -> kill_unknown(c0, "ILLEGAL_INST")
        ci == Emit(c0, <<GI("movi_tl", imm_rs1, NoArg, FromNat(rs1))>>)
        csrop ==
          CASE f3 = 1 -> Emit(ci, <<H("csrrw", dest, source1, csr_store, NoArg)>>)
            [] f3 = 2 -> Emit(ci, <<H("csrrs", dest, source1, csr_store, rs1_pass)>>)
            [] f3 = 3 -> Emit(ci, <<H("csrrc", dest, source1, csr_store, rs1_pass)>>)
            [] f3 = 5 -> Emit(ci, <<H("csrrw", dest, imm_rs1, csr_store, NoArg)>>)
            [] f3 = 6 -> Emit(ci, <<H("csrrs", dest, imm_rs1, csr_store, rs1_pass)>>)
            [] f3 = 7 -> Emit(ci, <<H("csrrc", dest, imm_rs1, csr_store, rs1_pass)>>)
            [] OTHER -> kill_unknown(ci, "ILLEGAL_INST")
        c1 == IF f3 = 0 THEN priv
              ELSE leave(Emit(gen_set_gpr(csrop, rd, dest),
                              <<GI("movi_tl", cpu_pc, NoArg, c.next_pc)>>))
    IN  tcg_temp_free(c1, temps)

(***************************************************************************)
(* Decoding.  extract32 and sextract64 on an opcode held as two halves,    *)
(* and the field macros of instmap.h.                                      *)
(***************************************************************************)
extract32(value, start, length) ==
    IF start >= 16 THEN (value.hi \div Pow2(start - 16)) % Pow2(length)
    ELSE IF start + length <= 16 THEN (value.lo \div Pow2(start)) % Pow2(length)
    ELSE (value.lo \div Pow2(start))
         + ((value.hi % Pow2(start + length - 16)) * Pow2(16 - start))

\* as an integer; the callers widen it to a word
sextract64(value, start, length) ==
    LET result == extract32(value, start, length)
    IN  IF result \div Pow2(length - 1) # 0 THEN result - Pow2(length) ELSE result

GET_RD(op) == extract32(op, 7, 5)

GET_RS1(op) == extract32(op, 15, 5)

GET_RS2(op) == extract32(op, 20, 5)

GET_RS3(op) == extract32(op, 27, 5)

GET_RM(op) == extract32(op, 12, 3)

GET_IMM(op) == FromInt(sextract64(op, 20, 12))

GET_STORE_IMM(op) == FromInt(extract32(op, 7, 5) + (32 * sextract64(op, 25, 7)))

GET_JAL_IMM(op) ==
    FromInt((2 * extract32(op, 21, 10)) + (2048 * extract32(op, 20, 1))
            + (4096 * extract32(op, 12, 8)) + (1048576 * sextract64(op, 31, 1)))

GET_B_IMM(op) ==
    FromInt((2 * extract32(op, 8, 4)) + (32 * extract32(op, 25, 6))
            + (2048 * extract32(op, 7, 1)) + (4096 * sextract64(op, 31, 1)))

GET_C_IMM(op) == FromInt(extract32(op, 2, 5) + (32 * sextract64(op, 12, 1)))

GET_C_ZIMM(op) == FromNat(extract32(op, 2, 5) + (32 * extract32(op, 12, 1)))

GET_C_ADDI4SPN_IMM(op) ==
    FromNat((4 * extract32(op, 6, 1)) + (8 * extract32(op, 5, 1))
            + (16 * extract32(op, 11, 2)) + (64 * extract32(op, 7, 4)))

GET_C_ADDI16SP_IMM(op) ==
    FromInt((16 * extract32(op, 6, 1)) + (32 * extract32(op, 2, 1))
            + (64 * extract32(op, 5, 1)) + (128 * extract32(op, 3, 2))
            + (512 * sextract64(op, 12, 1)))

GET_C_LWSP_IMM(op) ==
    FromNat((4 * extract32(op, 4, 3)) + (32 * extract32(op, 12, 1))
            + (64 * extract32(op, 2, 2)))

GET_C_LDSP_IMM(op) ==
    FromNat((8 * extract32(op, 5, 2)) + (32 * extract32(op, 12, 1))
            + (64 * extract32(op, 2, 3)))

GET_C_SWSP_IMM(op) == FromNat((4 * extract32(op, 9, 4)) + (64 * extract32(op, 7, 2)))

GET_C_SDSP_IMM(op) == FromNat((8 * extract32(op, 10, 3)) + (64 * extract32(op, 7, 3)))

GET_C_LW_IMM(op) ==
    FromNat((4 * extract32(op, 6, 1)) + (8 * extract32(op, 10, 3))
            + (64 * extract32(op, 5, 1)))

GET_C_LD_IMM(op) == FromNat((8 * extract32(op, 10, 3)) + (64 * extract32(op, 5, 2)))

GET_C_J_IMM(op) ==
    FromInt((2 * extract32(op, 3, 3)) + (16 * extract32(op, 11, 1))
            + (32 * extract32(op, 2, 1)) + (64 * extract32(op, 7, 1))
            + (128 * extract32(op, 6, 1)) + (256 * extract32(op, 9, 2))
            + (1024 * extract32(op, 8, 1)) + (2048 * sextract64(op, 12, 1)))

GET_C_B_IMM(op) ==
    FromInt((2 * extract32(op, 3, 2)) + (8 * extract32(op, 10, 2))
            + (32 * extract32(op, 2, 1)) + (64 * extract32(op, 5, 2))
            + (256 * sextract64(op, 12, 1)))

GET_C_RS1S(op) == 8 + extract32(op, 7, 3)

GET_C_RS2S(op) == 8 + extract32(op, 2, 3)

GET_C_RS1(op) == extract32(op, 7, 5)

GET_C_RS2(op) == extract32(op, 2, 5)

(***************************************************************************)
(* The decoders.  A decoder's result is the call it makes: the translator  *)
(* and the operands it passes; disas_insn applies it to the context.       *)
(* "nop" stands for a decoder arm that emits nothing.                      *)
(***************************************************************************)
Gen(f, opc, rd, rs1, rs2, imm) ==
    [f |-> f, opc |-> opc, rd |-> rd, rs1 |-> rs1, rs2 |-> rs2, imm |-> imm]

GenNone(f) == Gen(f, OPC_RISC_ADDI, 0, 0, 0, Zero)

decode_RV32_64C0(c) ==
    LET op == c.opcode
        funct3 == extract32(op, 13, 3)
        rd_rs2 == GET_C_RS2S(op)
        rs1s == GET_C_RS1S(op)
    IN  CASE funct3 = 0 ->
               IF op = [lo |-> 0, hi |-> 0]
               THEN GenNone("kill_unknown")
               ELSE Gen("gen_arith_imm", OPC_RISC_ADDI, rd_rs2, 2, 0, GET_C_ADDI4SPN_IMM(op))
          [] funct3 = 1 -> Gen("gen_fp_load", OPC_RISC_FLD, rd_rs2, rs1s, 0, GET_C_LD_IMM(op))
          [] funct3 = 2 -> Gen("gen_load", OPC_RISC_LW, rd_rs2, rs1s, 0, GET_C_LW_IMM(op))
          [] funct3 = 3 -> Gen("gen_load", OPC_RISC_LD, rd_rs2, rs1s, 0, GET_C_LD_IMM(op))
          [] funct3 = 4 -> GenNone("kill_unknown")
          [] funct3 = 5 -> Gen("gen_fp_store", OPC_RISC_FSD, 0, rs1s, rd_rs2, GET_C_LD_IMM(op))
          [] funct3 = 6 -> Gen("gen_store", OPC_RISC_SW, 0, rs1s, rd_rs2, GET_C_LW_IMM(op))
          [] OTHER -> Gen("gen_store", OPC_RISC_SD, 0, rs1s, rd_rs2, GET_C_LD_IMM(op))

decode_RV32_64C1(c) ==
    LET op == c.opcode
        funct3 == extract32(op, 13, 3)
        rd_rs1 == GET_C_RS1(op)
        rs1s == GET_C_RS1S(op)
        rs2s == GET_C_RS2S(op)
        bit12 == extract32(op, 12, 1)
    IN  CASE funct3 = 0 -> Gen("gen_arith_imm", OPC_RISC_ADDI, rd_rs1, rd_rs1, 0, GET_C_IMM(op))
          [] funct3 = 1 -> Gen("gen_arith_imm", OPC_RISC_ADDIW, rd_rs1, rd_rs1, 0, GET_C_IMM(op))
          [] funct3 = 2 -> Gen("gen_arith_imm", OPC_RISC_ADDI, rd_rs1, 0, 0, GET_C_IMM(op))
          [] funct3 = 3 ->
               IF rd_rs1 = 2
               THEN Gen("gen_arith_imm", OPC_RISC_ADDI, 2, 2, 0, GET_C_ADDI16SP_IMM(op))
               ELSE IF rd_rs1 # 0
               THEN Gen("tcg_gen_movi_tl", OPC_RISC_ADDI, rd_rs1, 0, 0, WShl(GET_C_IMM(op), 12))
               ELSE GenNone("nop")
          [] funct3 = 4 ->
               CASE extract32(op, 10, 2) = 0 ->
                      Gen("gen_arith_imm", OPC_RISC_SHIFT_RIGHT_I, rs1s, rs1s, 0, GET_C_ZIMM(op))
                 [] extract32(op, 10, 2) = 1 ->
                      Gen("gen_arith_imm", OPC_RISC_SHIFT_RIGHT_I, rs1s, rs1s, 0,
                          WOr(GET_C_ZIMM(op), FromNat(1024)))
                 [] extract32(op, 10, 2) = 2 ->
                      Gen("gen_arith_imm", OPC_RISC_ANDI, rs1s, rs1s, 0, GET_C_IMM(op))
                 [] OTHER ->
                      CASE extract32(op, 5, 2) = 0 ->
                             Gen("gen_arith", IF bit12 = 0 THEN OPC_RISC_SUB ELSE OPC_RISC_SUBW,
                                 rs1s, rs1s, rs2s, Zero)
                        [] extract32(op, 5, 2) = 1 ->
                             Gen("gen_arith", IF bit12 = 0 THEN OPC_RISC_XOR ELSE OPC_RISC_ADDW,
                                 rs1s, rs1s, rs2s, Zero)
                        [] extract32(op, 5, 2) = 2 ->
                             Gen("gen_arith", OPC_RISC_OR, rs1s, rs1s, rs2s, Zero)
                        [] OTHER -> Gen("gen_arith", OPC_RISC_AND, rs1s, rs1s, rs2s, Zero)
          [] funct3 = 5 -> Gen("gen_jal", OPC_RISC_JALR, 0, 0, 0, GET_C_J_IMM(op))
          [] funct3 = 6 -> Gen("gen_branch", OPC_RISC_BEQ, 0, rs1s, 0, GET_C_B_IMM(op))
          [] OTHER -> Gen("gen_branch", OPC_RISC_BNE, 0, rs1s, 0, GET_C_B_IMM(op))

decode_RV32_64C2(c) ==
    LET op == c.opcode
        funct3 == extract32(op, 13, 3)
        rd == GET_RD(op)
        rs2 == GET_C_RS2(op)
    IN  CASE funct3 = 0 -> Gen("gen_arith_imm", OPC_RISC_SLLI, rd, rd, 0, GET_C_ZIMM(op))
          [] funct3 = 1 -> Gen("gen_fp_load", OPC_RISC_FLD, rd, 2, 0, GET_C_LDSP_IMM(op))
          [] funct3 = 2 -> Gen("gen_load", OPC_RISC_LW, rd, 2, 0, GET_C_LWSP_IMM(op))
          [] funct3 = 3 -> Gen("gen_load", OPC_RISC_LD, rd, 2, 0, GET_C_LDSP_IMM(op))
          [] funct3 = 4 ->
               IF extract32(op, 12, 1) = 0
               THEN IF rs2 = 0 THEN Gen("gen_jalr", OPC_RISC_JALR, 0, rd, 0, Zero)
                    ELSE Gen("gen_arith", OPC_RISC_ADD, rd, 0, rs2, Zero)
               ELSE IF rd = 0 THEN Gen("gen_system", OPC_RISC_ECALL, 0, 0, 0, One)
                    ELSE IF rs2 = 0 THEN Gen("gen_jalr", OPC_RISC_JALR, 1, rd, 0, Zero)
                    ELSE Gen("gen_arith", OPC_RISC_ADD, rd, rd, rs2, Zero)
          [] funct3 = 5 -> Gen("gen_fp_store", OPC_RISC_FSD, 0, 2, rs2, GET_C_SDSP_IMM(op))
          [] funct3 = 6 -> Gen("gen_store", OPC_RISC_SW, 0, 2, rs2, GET_C_SWSP_IMM(op))
          [] OTHER -> Gen("gen_store", OPC_RISC_SD, 0, 2, rs2, GET_C_SDSP_IMM(op))

decode_RV32_64C(c) ==
    CASE extract32(c.opcode, 0, 2) = 0 -> decode_RV32_64C0(c)
      [] extract32(c.opcode, 0, 2) = 1 -> decode_RV32_64C1(c)
      [] extract32(c.opcode, 0, 2) = 2 -> decode_RV32_64C2(c)
      [] OTHER -> GenNone("nop")

\* MASK_OP_*: the major opcode with funct3 and, for some groups, funct7
decode_RV32_64G(c) ==
    LET opcode == c.opcode
        op  == extract32(opcode, 0, 7)
        f3  == extract32(opcode, 12, 3)
        f7  == extract32(opcode, 25, 7)
        rs1 == GET_RS1(opcode)
        rs2 == GET_RS2(opcode)
        rd  == GET_RD(opcode)
        imm == GET_IMM(opcode)
    IN  CASE op = 55 ->
               IF rd = 0 THEN GenNone("nop")
               ELSE Gen("tcg_gen_movi_tl", Opc(op, 0, 0), rd, 0, 0,
                        WShl(FromInt(sextract64(opcode, 12, 20)), 12))
          [] op = 23 ->
               IF rd = 0 THEN GenNone("nop")
               ELSE Gen("tcg_gen_movi_tl", Opc(op, 0, 0), rd, 0, 0,
                        WAdd(WShl(FromInt(sextract64(opcode, 12, 20)), 12), c.pc))
          [] op = 111 -> Gen("gen_jal", Opc(op, 0, 0), rd, 0, 0, GET_JAL_IMM(opcode))
          [] op = 103 -> Gen("gen_jalr", Opc(op, f3, 0), rd, rs1, 0, imm)
          [] op = 99 -> Gen("gen_branch", Opc(op, f3, 0), 0, rs1, rs2, GET_B_IMM(opcode))
          [] op = 3 -> Gen("gen_load", Opc(op, f3, 0), rd, rs1, 0, imm)
          [] op = 35 -> Gen("gen_store", Opc(op, f3, 0), 0, rs1, rs2, GET_STORE_IMM(opcode))
          [] op \in {19, 27} ->
               IF rd = 0 THEN GenNone("nop")
               ELSE Gen("gen_arith_imm", Opc(op, f3, 0), rd, rs1, 0, imm)
          [] op \in {51, 59} ->
               IF rd = 0 THEN GenNone("nop")
               ELSE Gen("gen_arith", Opc(op, f3, f7), rd, rs1, rs2, Zero)
          [] op = 7 -> Gen("gen_fp_load", Opc(op, f3, 0), rd, rs1, 0, imm)
          [] op = 39 -> Gen("gen_fp_store", Opc(op, f3, 0), 0, rs1, rs2, GET_STORE_IMM(opcode))
          [] op = 47 -> Gen("gen_atomic", Opc(op, f3, f7), rd, rs1, rs2, Zero)
          [] op = 67 -> Gen("gen_fp_fmadd", Opc(op, 0, f7 % 4), rd, rs1, rs2, Zero)
          [] op = 71 -> Gen("gen_fp_fmsub", Opc(op, 0, f7 % 4), rd, rs1, rs2, Zero)
          [] op = 75 -> Gen("gen_fp_fnmsub", Opc(op, 0, f7 % 4), rd, rs1, rs2, Zero)
          [] op = 79 -> Gen("gen_fp_fnmadd", Opc(op, 0, f7 % 4), rd, rs1, rs2, Zero)
          [] op = 83 -> Gen("gen_fp_arith", Opc(op, 0, f7), rd, rs1, rs2, Zero)
          [] op = 15 -> IF f3 % 2 = 1 THEN GenNone("gen_helper_fence_i") ELSE GenNone("nop")
          [] op = 115 ->
               Gen("gen_system", Opc(op, f3, 0), rd, rs1, 0, FromNat(extract32(opcode, 20, 12)))
          [] OTHER -> GenNone("kill_unknown")

\* the call a decoder settled on, made on context c
gen_call(e, c, g) ==
    CASE g.f = "gen_arith_imm" -> gen_arith_imm(c, g.opc, g.rd, g.rs1, g.imm)
      [] g.f = "gen_arith" -> gen_arith(c, g.opc, g.rd, g.rs1, g.rs2)
      [] g.f = "gen_load" -> gen_load(c, g.opc, g.rd, g.rs1, g.imm)
      [] g.f = "gen_store" -> gen_store(c, g.opc, g.rs1, g.rs2, g.imm)
      [] g.f = "gen_fp_load" -> gen_fp_load(c, g.opc, g.rd, g.rs1, g.imm)
      [] g.f = "gen_fp_store" -> gen_fp_store(c, g.opc, g.rs1, g.rs2, g.imm)
      [] g.f = "gen_jal" -> gen_jal(e, c, g.rd, g.imm)
      [] g.f = "gen_jalr" -> gen_jalr(e, c, g.opc, g.rd, g.rs1, g.imm)
      [] g.f = "gen_branch" -> gen_branch(e, c, g.opc, g.rs1, g.rs2, g.imm)
      [] g.f = "gen_atomic" -> gen_atomic(c, g.opc, g.rd, g.rs1, g.rs2)
      [] g.f \in {"gen_fp_fmadd", "gen_fp_fmsub", "gen_fp_fnmsub", "gen_fp_fnmadd"} ->
           gen_fp_fused(c, g.f, g.opc, g.rd, g.rs1, g.rs2, GET_RS3(c.opcode), GET_RM(c.opcode))
      [] g.f = "gen_fp_arith" -> gen_fp_arith(c, g.opc, g.rd, g.rs1, g.rs2, GET_RM(c.opcode))
      [] g.f = "gen_system" -> gen_system(c, g.opc, g.rd, g.rs1, g.imm[1])
      [] g.f = "tcg_gen_movi_tl" -> Emit(c, <<GI("movi_tl", cpu_gpr(g.rd), NoArg, g.imm)>>)
      [] g.f = "gen_helper_fence_i" ->
           [Emit(c, <<Call("helper_fence_i", "", NoArg, NoArg, NoArg, NoArg, NoArg),
                      GI("movi_tl", cpu_pc, NoArg, c.next_pc),
                      gen_exit_tb(0)>>) EXCEPT !.bstate = BS_BRANCH]
      [] g.f = "kill_unknown" -> kill_unknown(c, "ILLEGAL_INST")
      [] OTHER -> c

disas_size(c) == IF extract32(c.opcode, 0, 2) # 3 THEN 2 ELSE 4

disas_next(c) == [c EXCEPT !.pc = c.next_pc]

\* the context with next_pc set for an instruction of len bytes, decoded and
\* translated, and pc moved on
disas_len(e, c, len) ==
    gen_call(e, c, IF len = 2 THEN decode_RV32_64C(c) ELSE decode_RV32_64G(c))

\* <<the context after the instruction, the instruction's length>>
disas_insn(e, c) ==
    IF extract32(c.opcode, 0, 2) # 3 /\ ~riscv_has_ext(e, "C")
    THEN <<kill_unknown(c, "ILLEGAL_INST"), 0>>
    ELSE <<disas_next(disas_len(e, [c EXCEPT !.next_pc = WAdd(c.pc, FromNat(disas_size(c)))],
                                disas_size(c))),
           disas_size(c)>>

(***************************************************************************)
(* Guest state, translation blocks and the translation loop.               *)
(***************************************************************************)
GprInit(i) == IF i \in {2, 8, 10} THEN <<16384, 0, 0, 0>> ELSE <<4096 + i, i, 0, 0>>

MemCells == {<<16384, 0, 0, 0>>, <<16392, 0, 0, 0>>}

CPUState0 ==
    [gpr |-> [i \in 0..31 |-> IF i = 0 THEN Zero ELSE GprInit(i)], fpr |-> [i \in 0..31 |-> <<i, 0, i, 0>>],
     pc |-> Zero, mstatus |-> Zero, mem |-> [a \in MemCells |-> <<a[1], 43981, 0, 61440>>],
     exception_index |-> "EXCP_NONE", badaddr |-> Zero, misa |-> {"C"},
     singlestep_enabled |-> 0, breakpoints |-> {}]

NoRun == [exit |-> "", ub |-> FALSE, helpers |-> <<>>]

TranslationBlock(pc) ==
    [pc |-> pc, size |-> 0, prev_size |-> 0, original_size |-> 0, icount |-> 0,
     search_pc |-> 0, opc_pc |-> <<>>, disas_flags |-> 0, ir |-> <<>>]

DisasContext(pc, singlestep, tbpc) ==
    [pc |-> pc, next_pc |-> pc, opcode |-> [lo |-> 0, hi |-> 0],
     singlestep_enabled |-> singlestep, mem_idx |-> 0, bstate |-> BS_NONE,
     tb_pc |-> tbpc, ir |-> <<>>, live |-> {}, labels |-> 0]

create_disas_context(e, t) == DisasContext(t.pc, e.singlestep_enabled, t.pc)

gen_breakpoint(c) == [generate_exception(c, "EXCP_DEBUG") EXCEPT !.pc = WAdd(@, FromNat(4))]

\* guest code: halfwords laid out from code.base; memory past them reads zero
ldl_code(code, pc) ==
    LET i == (pc[1] - code.base[1]) \div 2
        half(k) == IF k >= 0 /\ k < Len(code.half) THEN code.half[k + 1] ELSE 0
    IN  IF <<pc[2], pc[3], pc[4]>> = <<code.base[2], code.base[3], code.base[4]>>
           /\ pc[1] >= code.base[1]
        THEN [lo |-> half(i), hi |-> half(i + 1)]
        ELSE [lo |-> 0, hi |-> 0]

\* the op buffer's capacity, in micro-ops of this model
OPC_MAX_SIZE == 48

\* the loop's bookkeeping and exit tests without the restore-mode size test
after_insn_no_restore_bound(t, d, max) ==
    LET c1 == d[1]
        len == d[2]
        t2 == [t EXCEPT !.prev_size = t.size, !.size = t.size + len,
                        !.icount = t.icount + 1,
                        !.original_size = IF t.search_pc = 0 THEN t.size + len ELSE @]
        quiet == c1.live = {} /\ c1.bstate = BS_NONE /\ c1.singlestep_enabled = 0
                 /\ WLtu(WSub(c1.pc, PageOf(t.pc)), FromNat(TARGET_PAGE_SIZE))
    IN  [tb |-> t2,
         ctx |-> [c1 EXCEPT !.bstate = IF quiet /\ t.icount + 1 >= max THEN BS_STOP ELSE @],
         brk |-> ~quiet \/ t.icount + 1 >= max \/ Len(c1.ir) >= OPC_MAX_SIZE,
         abort |-> c1.live # {}]

\* the loop's bookkeeping and exit tests without the instruction budget
after_insn_no_budget(t, d, max) ==
    LET c1 == d[1]
        len == d[2]
        t2 == [t EXCEPT !.prev_size = t.size, !.size = t.size + len,
                        !.icount = t.icount + 1,
                        !.original_size = IF t.search_pc = 0 THEN t.size + len ELSE @]
        quiet == c1.live = {} /\ c1.bstate = BS_NONE /\ c1.singlestep_enabled = 0
                 /\ WLtu(WSub(c1.pc, PageOf(t.pc)), FromNat(TARGET_PAGE_SIZE))
        full == Len(c1.ir) >= OPC_MAX_SIZE
        restored == t.search_pc # 0 /\ t.size + len = t.original_size
    IN  [tb |-> t2,
         ctx |-> [c1 EXCEPT !.bstate = IF quiet /\ ~full /\ restored THEN BS_STOP ELSE @],
         brk |-> ~quiet \/ full \/ restored,
         abort |-> c1.live # {}]

\* the loop's bookkeeping and exit tests without the test of bstate
after_insn_ignores_bstate(t, d, max) ==
    LET c1 == d[1]
        len == d[2]
        t2 == [t EXCEPT !.prev_size = t.size, !.size = t.size + len,
                        !.icount = t.icount + 1,
                        !.original_size = IF t.search_pc = 0 THEN t.size + len ELSE @]
        quiet == c1.live = {} /\ c1.singlestep_enabled = 0
                 /\ WLtu(WSub(c1.pc, PageOf(t.pc)), FromNat(TARGET_PAGE_SIZE))
        spent == t.icount + 1 >= max
        full == Len(c1.ir) >= OPC_MAX_SIZE
        restored == t.search_pc # 0 /\ t.size + len = t.original_size
    IN  [tb |-> t2,
         ctx |-> [c1 EXCEPT !.bstate = IF quiet /\ (spent \/ (~full /\ restored))
                                       THEN BS_STOP ELSE @],
         brk |-> ~quiet \/ spent \/ full \/ restored,
         abort |-> c1.live # {}]

\* the loop's bookkeeping and exit tests once disas_insn has returned
\* d = <<context, instruction length>>: the block and context, whether the loop
\* is left, and whether the temporary count check aborted
after_insn(t, d, max) ==
    LET c1 == d[1]
        len == d[2]
        t2 == [t EXCEPT !.prev_size = t.size, !.size = t.size + len,
                        !.icount = t.icount + 1,
                        !.original_size = IF t.search_pc = 0 THEN t.size + len ELSE @]
        bstate == IF c1.live # {} \/ c1.bstate # BS_NONE \/ c1.singlestep_enabled # 0
                     \/ ~WLtu(WSub(c1.pc, PageOf(t.pc)), FromNat(TARGET_PAGE_SIZE))
                  THEN c1.bstate
                  ELSE IF t.icount + 1 >= max THEN BS_STOP
                  ELSE IF Len(c1.ir) >= OPC_MAX_SIZE THEN c1.bstate
                  ELSE IF t.search_pc # 0 /\ t.size + len = t.original_size THEN BS_STOP
                  ELSE c1.bstate
        brk == \/ c1.live # {}
               \/ c1.bstate # BS_NONE
               \/ c1.singlestep_enabled # 0
               \/ ~WLtu(WSub(c1.pc, PageOf(t.pc)), FromNat(TARGET_PAGE_SIZE))
               \/ t.icount + 1 >= max
               \/ Len(c1.ir) >= OPC_MAX_SIZE
               \/ (t.search_pc # 0 /\ t.size + len = t.original_size)
    IN  [tb |-> t2, ctx |-> [c1 EXCEPT !.bstate = bstate], brk |-> brk,
         abort |-> c1.live # {}]

\* one pass of gen_intermediate_code's loop
loop_iteration(e, t, c, max, code) ==
    IF c.pc \in e.breakpoints
    THEN [tb |-> t, ctx |-> gen_breakpoint(c), brk |-> TRUE, abort |-> FALSE]
    ELSE after_insn(IF t.search_pc # 0
                    THEN [t EXCEPT !.opc_pc = Append(@, <<Len(c.ir), c.pc>>)]
                    ELSE t,
                    disas_insn(e, [c EXCEPT !.opcode = ldl_code(code, c.pc)]), max)

\* the end of a block without the exit for a loop left at a page boundary
gen_block_end_no_exit(e, c) ==
    IF c.bstate = BS_STOP THEN gen_goto_tb(c, 0, c.pc) ELSE c

\* what gen_intermediate_code emits after the loop
gen_block_end(e, c) ==
    IF e.singlestep_enabled # 0 /\ c.bstate # BS_BRANCH
    THEN Emit(c, (IF c.bstate = BS_NONE THEN <<GI("movi_tl", cpu_pc, NoArg, c.pc)>>
                  ELSE <<>>)
                 \o <<Call("helper_raise_exception_debug", "", NoArg, NoArg, NoArg, NoArg,
                           NoArg)>>)
    ELSE CASE c.bstate = BS_STOP -> gen_goto_tb(c, 0, c.pc)
           [] c.bstate = BS_NONE ->
                Emit(c, <<GI("movi_tl", cpu_pc, NoArg, c.pc), gen_exit_tb(0)>>)
           [] OTHER -> c

\* the loop from a context on, then the block's end: the finished context
RECURSIVE translate_from(_, _, _, _, _)
\* r is the outcome of one pass of the loop
loop_continue(e, r, max, code) ==
    IF r.abort THEN r.ctx
    ELSE IF r.brk THEN gen_block_end(e, r.ctx)
    ELSE translate_from(e, r.tb, r.ctx, max, code)

translate_from(e, t, c, max, code) ==
    loop_continue(e, loop_iteration(e, t, c, max, code), max, code)

gen_intermediate_code(e, t, max, code) ==
    translate_from(e, t, create_disas_context(e, t), max, code)

CreateContext ==
    /\ phase = "start"
    /\ ctx' = create_disas_context(env, tb)
    /\ phase' = "loop"
    /\ UNCHANGED <<env, env0, run, tb, max_insns, job>>

\* the loop reaches a breakpoint at the current pc
LoopBreakpoint ==
    /\ phase = "loop"
    /\ ctx.pc \in env.breakpoints
    /\ ctx' = gen_breakpoint(ctx)
    /\ tb' = tb
    /\ phase' = "end"
    /\ UNCHANGED <<env, env0, run, max_insns, job>>

\* the loop translates the instruction at the current pc
LoopInsn ==
    /\ phase = "loop"
    /\ ctx.pc \notin env.breakpoints
    /\ \E r \in {loop_iteration(env, tb, ctx, max_insns, job.code)} :
          /\ tb' = r.tb
          /\ ctx' = r.ctx
          /\ phase' = IF r.abort THEN "aborted" ELSE IF r.brk THEN "end" ELSE "loop"
    /\ UNCHANGED <<env, env0, run, max_insns, job>>

BlockEnd ==
    /\ phase = "end"
    /\ ctx' = gen_block_end(env, ctx)
    /\ tb' = [tb EXCEPT !.ir = ctx'.ir, !.disas_flags = 0]
    /\ phase' = "translated"
    /\ UNCHANGED <<env, env0, run, max_insns, job>>

\* the outer loop runs the block that translation produced
Execute ==
    /\ phase = "translated"
    /\ \E m \in {RunTB(tb.ir, env)} :
           /\ env' = m.env
           /\ run' = [exit |-> m.exit, ub |-> m.ub, helpers |-> m.helpers]
    /\ phase' = "executed"
    /\ UNCHANGED <<env0, tb, ctx, max_insns, job>>

(***************************************************************************)
(* Instruction words of the base ISA formats, as the two halfwords that    *)
(* guest memory holds.                                                     *)
(***************************************************************************)
Word32(major, rd, funct3, rs1, top12) ==
    [lo |-> major + (128 * rd) + (4096 * funct3) + (32768 * (rs1 % 2)),
     hi |-> (rs1 \div 2) + (16 * top12)]

Enc_R(major, funct3, funct7, rd, rs1, rs2) == Word32(major, rd, funct3, rs1, (32 * funct7) + rs2)

Enc_I(major, funct3, rd, rs1, imm12) == Word32(major, rd, funct3, rs1, imm12)

Enc_S(major, funct3, rs1, rs2, imm12) ==
    Word32(major, imm12 % 32, funct3, rs1, (32 * (imm12 \div 32)) + rs2)

\* off13: a branch offset modulo 2^13, bit 0 clear
Enc_B(major, funct3, rs1, rs2, off13) ==
    Word32(major, (2 * ((off13 \div 2) % 16)) + ((off13 \div 2048) % 2), funct3, rs1,
           (2048 * (off13 \div 4096)) + (32 * ((off13 \div 32) % 64)) + rs2)

\* off21: a jump offset modulo 2^21, bit 0 clear
Enc_J(major, rd, off21) ==
    Word32(major, rd, (off21 \div 4096) % 8, (off21 \div 32768) % 32,
           (2048 * (off21 \div 1048576)) + (2 * ((off21 \div 2) % 1024))
               + ((off21 \div 2048) % 2))

Enc_U(major, rd, imm20) == Word32(major, rd, imm20 % 8, (imm20 \div 8) % 32, imm20 \div 256)

Halves(w) == <<w.lo, w.hi>>

(***************************************************************************)
(* gen_arith on its own: every register-register opcode on operand pairs   *)
(* that cover the corner cases of division and of the shift counts.        *)
(***************************************************************************)
ArithSamples ==
    {Zero, One, AllOnes, INT_MIN_W, FromNat(7), FromInt(-7), FromNat(31), FromNat(32),
     FromNat(33), FromNat(63), FromNat(64), FromNat(65), <<0, 32768, 0, 0>>,
     <<0, 32768, 65535, 65535>>, <<65535, 65535, 0, 0>>, <<65535, 65535, 65535, 32767>>,
     <<5, 0, 1, 0>>}

ArithOpcs ==
    {OPC_RISC_ADD, OPC_RISC_SUB, OPC_RISC_SLL, OPC_RISC_SLT, OPC_RISC_SLTU, OPC_RISC_XOR, OPC_RISC_SRL, OPC_RISC_SRA, OPC_RISC_OR, OPC_RISC_AND, OPC_RISC_MUL,
         OPC_RISC_MULH, OPC_RISC_MULHSU, OPC_RISC_MULHU, OPC_RISC_DIV, OPC_RISC_DIVU, OPC_RISC_REM, OPC_RISC_REMU, OPC_RISC_ADDW, OPC_RISC_SUBW,
         OPC_RISC_SLLW, OPC_RISC_SRLW, OPC_RISC_SRAW, OPC_RISC_MULW, OPC_RISC_DIVW, OPC_RISC_DIVUW, OPC_RISC_REMW, OPC_RISC_REMUW,
         Opc(51, 0, 2)}

ArithRegs == {<<3, 1, 2>>, <<1, 1, 2>>, <<0, 1, 2>>}

InitArith ==
    /\ \E a \in ArithSamples, b \in ArithSamples :
          env = [CPUState0 EXCEPT !.gpr[1] = a, !.gpr[2] = b]
    /\ env0 = env
    /\ run = NoRun
    /\ tb = TranslationBlock(<<4096, 0, 0, 0>>)
    /\ ctx = DisasContext(<<4096, 0, 0, 0>>, 0, <<4096, 0, 0, 0>>)
    /\ phase = "start"
    /\ max_insns = 1
    /\ \E o \in ArithOpcs, r \in ArithRegs :
          job = [opc |-> o, rd |-> r[1], rs1 |-> r[2], rs2 |-> r[3]]

TranslateArith ==
    /\ phase = "start"
    /\ ctx' = gen_arith(ctx, job.opc, job.rd, job.rs1, job.rs2)
    /\ tb' = [tb EXCEPT !.ir = ctx'.ir]
    /\ phase' = "translated"
    /\ UNCHANGED <<env, env0, run, max_insns, job>>

NextArith == TranslateArith \/ Execute

SpecArith == InitArith /\ [][NextArith]_vars

\* the operands an instruction reads and the value its destination holds
SrcA == IF job.rs1 = 0 THEN Zero ELSE env0.gpr[job.rs1]

SrcB == IF job.rs2 = 0 THEN Zero ELSE env0.gpr[job.rs2]

\* the block ran to its end: no exception, no undefined micro-op
RanThrough ==
    /\ ~run.ub
    /\ run.exit = ""
    /\ env.exception_index = "EXCP_NONE"

DivOpcs ==
    {OPC_RISC_DIV, OPC_RISC_DIVU, OPC_RISC_REM, OPC_RISC_REMU, OPC_RISC_DIVW, OPC_RISC_DIVUW, OPC_RISC_REMW, OPC_RISC_REMUW}

\* the result the ISA gives the division instructions
DivResult(opc, a, b) ==
    LET a32 == Ext32s(a)
        b32 == Ext32s(b)
        au  == Ext32u(a)
        bu  == Ext32u(b)
    IN  CASE opc = OPC_RISC_DIV ->
               IF b = Zero THEN AllOnes
               ELSE IF a = INT_MIN_W /\ b = AllOnes THEN a
               ELSE WDiv(a, b)
          [] opc = OPC_RISC_DIVU -> IF b = Zero THEN AllOnes ELSE WDivu(a, b)
          [] opc = OPC_RISC_REM ->
               IF b = Zero THEN a
               ELSE IF a = INT_MIN_W /\ b = AllOnes THEN Zero
               ELSE WRem(a, b)
          [] opc = OPC_RISC_REMU -> IF b = Zero THEN a ELSE WRemu(a, b)
          [] opc = OPC_RISC_DIVW ->
               IF b32 = Zero THEN AllOnes
               ELSE IF a32 = INT32_MIN_W /\ b32 = AllOnes THEN a32
               ELSE Ext32s(WDiv(a32, b32))
          [] opc = OPC_RISC_DIVUW -> IF bu = Zero THEN AllOnes ELSE Ext32s(WDivu(au, bu))
          [] opc = OPC_RISC_REMW ->
               IF b32 = Zero THEN a32
               ELSE IF a32 = INT32_MIN_W /\ b32 = AllOnes THEN Zero
               ELSE Ext32s(WRem(a32, b32))
          [] OTHER -> IF bu = Zero THEN a32 ELSE Ext32s(WRemu(au, bu))

\* C1: DIV, DIVU, REM, REMU and their W forms raise no exception and give
\* the ISA's results: all ones for a division by zero, the dividend for the
\* signed overflow, the dividend for a remainder by zero, zero for the
\* remainder of the signed overflow; the W forms on the low 32 bits,
\* sign-extended.
C1_DivisionCorners ==
    (phase = "executed" /\ job.opc \in DivOpcs)
        => /\ RanThrough
           /\ job.rd # 0 => env.gpr[job.rd] = DivResult(job.opc, SrcA, SrcB)

C1_Witness ==
    /\ phase = "executed"
    /\ job.opc = OPC_RISC_DIV
    /\ job.rd = 3
    /\ SrcA = INT_MIN_W
    /\ SrcB = AllOnes
    /\ env.gpr[3] = INT_MIN_W

ShiftOpcs ==
    {OPC_RISC_SLL, OPC_RISC_SRL, OPC_RISC_SRA, OPC_RISC_SLLW, OPC_RISC_SRLW, OPC_RISC_SRAW}

ShiftResult(opc, a, b) ==
    LET n64 == b[1] % 64
        n32 == b[1] % 32
    IN  CASE opc = OPC_RISC_SLL -> WShl(a, n64)
          [] opc = OPC_RISC_SRL -> WShr(a, n64)
          [] opc = OPC_RISC_SRA -> WSar(a, n64)
          [] opc = OPC_RISC_SLLW -> Ext32s(WShl(a, n32))
          [] opc = OPC_RISC_SRLW -> Ext32s(WShr(Ext32u(a), n32))
          [] OTHER -> Ext32s(WSar(Ext32s(a), n32))

\* C3: SLL, SRL and SRA shift by the count modulo 64; SLLW, SRLW and SRAW
\* shift the low 32 bits by the count modulo 32 and sign-extend the result.
C3_ShiftMasking ==
    (phase = "executed" /\ job.opc \in ShiftOpcs)
        => /\ RanThrough
           /\ job.rd # 0 => env.gpr[job.rd] = ShiftResult(job.opc, SrcA, SrcB)

C3_Witness ==
    /\ phase = "executed"
    /\ job.opc = OPC_RISC_SLL
    /\ job.rd = 3
    /\ SrcA = <<65535, 65535, 0, 0>>
    /\ SrcB = FromNat(65)
    /\ env.gpr[3] = <<65534, 65535, 1, 0>>


(***************************************************************************)
(* The translator on guest code: single instructions drawn from every      *)
(* decoder arm, and short instruction streams under breakpoints,           *)
(* single-stepping, instruction budgets and a page end.                    *)
(***************************************************************************)
CodeBase == <<4096, 0, 0, 0>>

\* field values of compressed halfwords: bits 11..7 and bits 6..2
CFieldHi == {0, 1, 2, 9, 17, 26, 31}

CFieldLo == {0, 1, 10, 19, 27, 31}

CompressedInsns ==
    {<<q + (4 * lo) + (128 * hi) + (4096 * b12) + (8192 * f3), 0>> :
        q \in 0..2, lo \in CFieldLo, hi \in CFieldHi, b12 \in 0..1, f3 \in 0..7}
    \cup {<<0, 1>>, <<0, 65535>>, <<0, 19>>}

ShiftImms == {0, 1, 31, 32, 63, 64, 1024, 1029, 1055, 1056, 1087, 1088, 2047, 2048, 2053, 4095}

IntegerInsns ==
    LET I == { Enc_I(m, f3, rd, 1, imm) : m \in {19, 27}, f3 \in {1, 5}, rd \in {0, 3},
                                          imm \in ShiftImms }
        A == { Enc_I(m, f3, rd, 1, imm) : m \in {19, 27}, f3 \in {0, 2, 3, 4, 6, 7},
                                          rd \in {0, 3}, imm \in {5, 4091} }
        R == { Enc_R(m, f3, f7, rd, 1, 4) : m \in {51, 59}, f3 \in {0, 1, 4, 5},
                                            f7 \in {0, 1, 32, 2}, rd \in {0, 3} }
        U == { Enc_U(m, rd, imm) : m \in {55, 23}, rd \in {0, 3}, imm \in {1, 524288} }
        L == { Enc_I(3, f3, rd, a[1], a[2]) : f3 \in 0..7, rd \in {0, 3},
                                             a \in {<<2, 0>>, <<2, 1>>, <<2, 8>>, <<1, 0>>} }
        S == { Enc_S(35, f3, a[1], 4, a[2]) : f3 \in 0..4,
                                             a \in {<<2, 0>>, <<2, 1>>, <<2, 8>>, <<1, 0>>} }
        Y == { Enc_I(115, f3, rd, 1, csr) : f3 \in {1, 2, 3, 5, 6, 7, 4}, rd \in {0, 3},
                                            csr \in {768} }
             \cup { Enc_I(115, 0, 0, 0, f12) : f12 \in {0, 1, 2, 258, 770, 261, 260, 7} }
        M == { Enc_R(47, f3, 4 * f5, rd, 2, 4) : f3 \in {2, 3, 0}, rd \in {0, 3},
                                                 f5 \in {0, 1, 2, 3, 4, 8, 12, 16, 20, 24,
                                                         28, 5} }
        X == { Enc_I(15, f3, 0, 0, 0) : f3 \in {0, 1} }
             \cup { [lo |-> 65535, hi |-> 65535], Enc_I(11, 0, 1, 1, 0) }
    IN  I \cup A \cup R \cup U \cup L \cup S \cup Y \cup M \cup X

FloatInsns ==
    LET L == { Enc_I(7, f3, 3, a[1], a[2]) : f3 \in {2, 3, 1}, a \in {<<2, 0>>, <<2, 1>>, <<1, 0>>} }
        S == { Enc_S(39, f3, a[1], 4, a[2]) : f3 \in {2, 3, 1}, a \in {<<2, 0>>, <<2, 1>>, <<1, 0>>} }
        F == { Enc_R(m, rm, (8 * 5) + fmt, 3, 1, 2) : m \in {67, 71, 75, 79}, rm \in {0, 7},
                                                     fmt \in 0..2 }
        A == { Enc_R(83, rm, f7, rd, 1, rs2) :
                 rm \in {0, 1, 2, 7}, rd \in {0, 3}, rs2 \in {0, 2, 3},
                 f7 \in {0, 1, 4, 5, 8, 9, 12, 13, 16, 17, 20, 21, 32, 33, 44, 45, 80, 81,
                         96, 97, 104, 105, 112, 113, 120, 121, 2} }
    IN  L \cup S \cup F \cup A

JumpInsns ==
    LET J == { Enc_J(111, rd, off) : rd \in {0, 1}, off \in {8, 2, 6, 4104, 2097150, 2097148} }
        R == { Enc_I(103, f3, rd, rs1, imm) : f3 \in {0, 1}, rd \in {0, 1, 5},
                                             rs1 \in {0, 1, 5}, imm \in {0, 1, 2, 3, 4094} }
        B == { Enc_B(99, f3, a[1], a[2], off) :
                 f3 \in 0..7, a \in {<<1, 1>>, <<1, 3>>, <<3, 1>>, <<0, 31>>},
                 off \in {8, 2, 6, 8190, 8188} }
    IN  J \cup R \cup B

\* a guest processor: the extensions it has and its mstatus
Guest(misa, mstatus) == [CPUState0 EXCEPT !.misa = misa, !.mstatus = mstatus]

InsnJobs ==
    { [half |-> h, misa |-> {"C"}, mstatus |-> fs] :
         h \in CompressedInsns, fs \in {Zero, MSTATUS_FS} }
    \cup { [half |-> Halves(w), misa |-> {"C"}, mstatus |-> MSTATUS_FS] : w \in IntegerInsns }
    \cup { [half |-> Halves(w), misa |-> {"C"}, mstatus |-> fs] :
              w \in FloatInsns, fs \in {Zero, MSTATUS_FS} }
    \cup { [half |-> Halves(w), misa |-> x, mstatus |-> Zero] :
              w \in JumpInsns, x \in {{}, {"C"}} }
    \cup { [half |-> <<1, 0>>, misa |-> {}, mstatus |-> Zero] }

\* the instructions that streams are made of
StreamInsns ==
    { Halves(Enc_I(19, 0, 3, 1, 5)), <<133>>, Halves(Enc_J(111, 0, 8)),
      Halves(Enc_J(111, 1, 4104)), Halves(Enc_B(99, 0, 1, 1, 8)),
      Halves(Enc_I(103, 0, 0, 1, 0)), Halves(Enc_I(115, 0, 0, 0, 0)),
      Halves(Enc_I(3, 2, 3, 2, 0)), Halves(Enc_I(7, 3, 3, 2, 0)),
      Halves(Enc_I(115, 0, 0, 0, 261)), <<65535, 65535>>,
      Halves(Enc_I(115, 2, 3, 1, 768)) }

StreamLen == 2

MaxInsns == 3

\* the last four bytes of the page that CodeBase starts
PageEnd == <<8188, 0, 0, 0>>

RECURSIVE Streams(_)
Streams(n) == IF n = 0 THEN {<<>>} ELSE {s \o i : s \in Streams(n - 1), i \in StreamInsns}

StreamJobs ==
    { [half |-> s, base |-> b, max |-> m, singlestep |-> ss, breakpoints |-> bp] :
         s \in Streams(StreamLen), b \in {CodeBase, PageEnd}, m \in 0..MaxInsns,
         ss \in {0, 1}, bp \in {{}, {CodeBase, PageEnd}, {WAdd(CodeBase, FromNat(4))}} }

Init ==
    /\ \/ \E j \in InsnJobs :
             /\ env = Guest(j.misa, j.mstatus)
             /\ job = [code |-> [base |-> CodeBase, half |-> j.half]]
             /\ max_insns = 1
       \/ \E j \in StreamJobs :
             /\ env = [CPUState0 EXCEPT !.singlestep_enabled = j.singlestep,
                                        !.breakpoints = j.breakpoints]
             /\ job = [code |-> [base |-> j.base, half |-> j.half]]
             /\ max_insns = j.max
    /\ env0 = env
    /\ run = NoRun
    /\ tb = TranslationBlock(job.code.base)
    /\ ctx = DisasContext(Zero, 0, Zero)
    /\ phase = "start"

Next == CreateContext \/ LoopBreakpoint \/ LoopInsn \/ BlockEnd \/ Execute

Spec == Init /\ [][Next]_vars

\* the restore path translates a finished block again: the caller clears the
\* block's counters, sets search_pc and passes its own instruction budget
Restore ==
    /\ phase = "translated"
    /\ tb.search_pc = 0
    /\ \E m \in 0..MaxInsns : max_insns' = m
    /\ job' = [code |-> job.code, first |-> tb]
    /\ tb' = [tb EXCEPT !.size = 0, !.prev_size = 0, !.icount = 0, !.search_pc = 1,
                        !.opc_pc = <<>>, !.ir = <<>>]
    /\ phase' = "start"
    /\ UNCHANGED <<env, env0, run, ctx>>

\* translation, and translation again in restore mode
NextRestore == CreateContext \/ LoopBreakpoint \/ LoopInsn \/ BlockEnd \/ Restore

SpecRestore == Init /\ [][NextRestore]_vars

(***************************************************************************)
(* Properties of translated and executed guest code.                       *)
(***************************************************************************)
\* the instruction word at the block's first pc
FirstWord == ldl_code(job.code, job.code.base)

IsCompressed(w) == w.lo % 4 # 3

\* the block holds exactly its first instruction, and it has been run
RanOne == phase = "executed" /\ tb.icount = 1

\* the integer destination register an encoding names, by the ISA's formats;
\* -1 for the formats that have none
DestReg(w) ==
    LET q == w.lo % 4
        f3 == (w.lo \div 8192) % 8
        r == (w.lo \div 128) % 32
        rs2 == (w.lo \div 4) % 32
        b12 == (w.lo \div 4096) % 2
    IN  CASE q = 3 -> IF w.lo % 128 \in {35, 39, 99} THEN -1 ELSE r
          [] q = 0 -> IF f3 \in {0, 2, 3} THEN 8 + (rs2 % 8) ELSE -1
          [] q = 1 -> IF f3 \in {0, 1, 2, 3} THEN r
                      ELSE IF f3 = 4 THEN 8 + (r % 8) ELSE IF f3 = 5 THEN 0 ELSE -1
          [] OTHER -> IF f3 \in {0, 2, 3} THEN r
                      ELSE IF f3 # 4 THEN -1
                      ELSE IF rs2 # 0 THEN r
                      ELSE IF r = 0 THEN -1 ELSE b12

\* C2: register zero reads as zero throughout, no micro-op of any block
\* names the unallocated cpu_gpr[0], and an executed instruction whose
\* destination is register zero leaves every general register as it was.
C2_RegisterZero ==
    /\ env.gpr[0] = Zero
    /\ \A k \in 1..Len(ctx.ir) : ~UsesGpr0(ctx.ir[k])
    /\ \A k \in 1..Len(tb.ir) : ~UsesGpr0(tb.ir[k])
    /\ (RanOne /\ DestReg(FirstWord) = 0) => env.gpr = env0.gpr

\* lw x0, 0(x2) runs through: the load is made, no register changes
C2_Witness ==
    /\ RanOne
    /\ job.code.half = Halves(Enc_I(3, 2, 0, 2, 0))
    /\ ~run.ub
    /\ env.exception_index = "EXCP_NONE"
    /\ env.gpr = env0.gpr
    /\ \E k \in 1..Len(tb.ir) : tb.ir[k].op = "qemu_ld32s"

\* the fields of a 32-bit instruction word, by the base ISA's formats
Major(w) == w.lo % 128

Funct3(w) == (w.lo \div 4096) % 8

Imm12(w) == w.hi \div 16

RaisedIllegal == run.exit = "exception" /\ env.exception_index = "ILLEGAL_INST"

\* C4: an immediate shift whose immediate field is at least XLEN (at least
\* 32 for the W forms) raises illegal-instruction, whatever rd and rs1 are;
\* bit 10 of the field, which selects SRAI from SRLI, is no part of the
\* shift amount of a right shift.
C4_ImmediateShiftLegality ==
    (RanOne /\ ~IsCompressed(FirstWord) /\ Major(FirstWord) \in {19, 27}
        /\ Funct3(FirstWord) \in {1, 5}
        /\ (IF Funct3(FirstWord) = 5 /\ Imm12(FirstWord) \in 1024..2047
             THEN Imm12(FirstWord) - 1024 ELSE Imm12(FirstWord))
              >= (IF Major(FirstWord) = 19 THEN 64 ELSE 32))
        => RaisedIllegal

\* the floating-point instructions: FP loads and stores, the fused
\* multiply-adds, OP-FP, and the compressed FP loads and stores
IsFloat(w) ==
    IF IsCompressed(w)
    THEN w.lo % 4 \in {0, 2} /\ (w.lo \div 8192) % 8 \in {1, 5}
    ELSE Major(w) \in {7, 39, 67, 71, 75, 79, 83}

\* C5: with mstatus.FS = 0 every floating-point instruction raises
\* ILLEGAL_INST before it calls a helper, accesses memory or writes a
\* register.
C5_FSGate ==
    (RanOne /\ IsFloat(FirstWord) /\ WAnd(env0.mstatus, MSTATUS_FS) = Zero)
        => /\ RaisedIllegal
           /\ run.helpers = <<>>
           /\ env.gpr = env0.gpr
           /\ env.fpr = env0.fpr
           /\ env.mem = env0.mem

\* the ways a block's micro-ops can be left, following both arms of every
\* conditional branch from position k: for each path the goto_tb slots it
\* passed (g) and the argument of the exit_tb that ends it, or -1 when the
\* path runs off the end of the block.  Helper calls are passed over.
RECURSIVE PathEnds(_, _, _)
PathEnds(ir, k, g) ==
    IF k > Len(ir) THEN {[g |-> g, exit |-> -1]}
    ELSE CASE ir[k].op = "exit_tb" -> {[g |-> g, exit |-> ir[k].n]}
           [] ir[k].op = "goto_tb" -> PathEnds(ir, k + 1, Append(g, ir[k].n))
           [] ir[k].op \in {"brcond_tl", "brcondi_tl"} ->
                PathEnds(ir, k + 1, g)
                    \cup UNION {PathEnds(ir, j + 1, g) : j \in LabelAt(ir, ir[k].n)}
           [] ir[k].op = "br" -> UNION {PathEnds(ir, j + 1, g) : j \in LabelAt(ir, ir[k].n)}
           [] OTHER -> PathEnds(ir, k + 1, g)

\* a path left through a chained goto_tb, and one left through exit_tb(0)
ChainedExit(p) == Len(p.g) = 1 /\ p.exit = p.g[1] + 1

UnchainedExit(p) == p.g = <<>> /\ p.exit = 0

\* every goto_tb of the block is followed by the write of a destination on
\* the block's own page, and there is none when single-stepping
GotoTbLegal ==
    \A k \in 1..Len(tb.ir) :
       tb.ir[k].op = "goto_tb"
          => /\ env.singlestep_enabled = 0
             /\ k < Len(tb.ir)
             /\ tb.ir[k + 1].op = "movi_tl"
             /\ tb.ir[k + 1].d = cpu_pc
             /\ PageOf(tb.ir[k + 1].imm) = PageOf(tb.pc)

Translated == phase \in {"translated", "executed"}

\* C6 as stated: every path through every block ends in exactly one exit, a
\* legal chained goto_tb or an unchained exit_tb(0).
C6_AsStated ==
    Translated
       => /\ GotoTbLegal
          /\ \A p \in PathEnds(tb.ir, 1, <<>>) : ChainedExit(p) \/ UnchainedExit(p)

\* a path that ends in the debug exception raised for single-stepping
DebugEnd(p) ==
    /\ p.g = <<>>
    /\ p.exit = -1
    /\ env.singlestep_enabled # 0
    /\ ctx.bstate # BS_BRANCH
    /\ tb.ir # <<>>
    /\ tb.ir[Len(tb.ir)].op = "helper_raise_exception_debug"

\* C6: every path through every block ends in a legal chained goto_tb or an
\* unchained exit_tb(0), never both and never neither, except that under
\* single-step a block whose last instruction is no branch ends in the
\* raise of EXCP_DEBUG, with no exit_tb after it.
C6_BlockTermination ==
    Translated
       => /\ GotoTbLegal
          /\ \A p \in PathEnds(tb.ir, 1, <<>>) :
                 ChainedExit(p) \/ UnchainedExit(p) \/ DebugEnd(p)

\* both arms of beq x1, x1, +8 leave the block through a chained goto_tb
C6_Witness ==
    /\ Translated
    /\ job.code.half = Halves(Enc_B(99, 0, 1, 1, 8)) \o Halves(Enc_I(19, 0, 3, 1, 5))
    /\ env.singlestep_enabled = 0
    /\ {p.exit : p \in PathEnds(tb.ir, 1, <<>>)} = {1, 2}
    /\ \A p \in PathEnds(tb.ir, 1, <<>>) : ChainedExit(p)

\* the value of a field of the given width read as a signed number
Signed(v, width) == IF v >= Pow2(width - 1) THEN v - Pow2(width) ELSE v

\* the value a source register holds before the instruction
Src(r) == IF r = 0 THEN Zero ELSE env0.gpr[r]

\* whether a conditional branch with the given funct3 is taken
BranchTaken(f3, a, b) ==
    CASE f3 = 0 -> a = b
      [] f3 = 1 -> a # b
      [] f3 = 4 -> WLt(a, b)
      [] f3 = 5 -> ~WLt(a, b)
      [] f3 = 6 -> WLtu(a, b)
      [] OTHER -> ~WLtu(a, b)

\* the jump the first instruction makes, if it is jal, jalr or a conditional
\* branch: its target and whether it is taken
JumpCases ==
    IF IsCompressed(FirstWord) THEN {}
    ELSE CASE Major(FirstWord) = 111 ->
                { [target |-> WAdd(job.code.base, FromInt(Signed(p[2] * 2, 21))),
                   taken |-> TRUE] :
                  p \in {q \in (0..31) \X {4, 1, 3, 2052, 1048575, 1048574} :
                            FirstWord = Enc_J(111, q[1], q[2] * 2)} }
           [] Major(FirstWord) = 103 /\ Funct3(FirstWord) = 0 ->
                { [target |-> WAnd(WAdd(Src(p[2]), FromInt(Signed(p[3], 12))), WNot(One)),
                   taken |-> TRUE] :
                  p \in {q \in (0..31) \X (0..31) \X {0, 1, 2, 3, 4094} :
                            FirstWord = Enc_I(103, 0, q[1], q[2], q[3])} }
           [] Major(FirstWord) = 99 /\ Funct3(FirstWord) \in {0, 1, 4, 5, 6, 7} ->
                { [target |-> WAdd(job.code.base, FromInt(Signed(p[3], 13))),
                   taken |-> BranchTaken(Funct3(FirstWord), Src(p[1]), Src(p[2]))] :
                  p \in {q \in (0..31) \X (0..31) \X {8, 2, 6, 8190, 8188} :
                            FirstWord = Enc_B(99, Funct3(FirstWord), q[1], q[2], q[3])} }
           [] OTHER -> {}

MisalignedJumps == {j \in JumpCases : j.taken /\ j.target[1] % 4 # 0}

\* C7: with RVC disabled a jal, jalr or taken branch to a target that is not
\* 4-byte aligned raises INST_ADDR_MIS with the bad address equal to the
\* target and pc equal to the address of the jump, and writes no link
\* register.
C7_MisalignedJump ==
    (RanOne /\ "C" \notin env0.misa)
       => \A j \in MisalignedJumps :
             /\ run.exit = "exception"
             /\ env.exception_index = "INST_ADDR_MIS"
             /\ env.badaddr = j.target
             /\ env.pc = job.code.base
             /\ env.gpr = env0.gpr

\* C8: with RVC enabled, a block whose first halfword is 0x0000 raises
\* ILLEGAL_INST at that instruction and holds nothing after it, whatever
\* the halfword that follows it in memory.
C8_ZeroHalfword ==
    (phase = "executed" /\ tb.icount >= 1 /\ "C" \in env0.misa /\ FirstWord.lo = 0)
       => /\ RaisedIllegal
          /\ env.pc = job.code.base
          /\ tb.icount = 1

\* the 16-bit encodings whose quadrant, funct3 and funct2 fields name no
\* RV64C instruction: quadrant 0 with funct3 = 4, and quadrant 1 with
\* funct3 = 4, bits 11:10 = 3, bit 12 = 1 and bits 6:5 of 2 or 3
ReservedC(w) ==
    LET q == w.lo % 4
        f3 == (w.lo \div 8192) % 8
    IN  \/ q = 0 /\ f3 = 4
        \/ /\ q = 1
           /\ f3 = 4
           /\ (w.lo \div 1024) % 4 = 3
           /\ (w.lo \div 4096) % 2 = 1
           /\ (w.lo \div 32) % 4 \in {2, 3}

\* C9: with RVC enabled every reserved 16-bit encoding raises
\* illegal-instruction.
C9_ReservedCompressed ==
    (RanOne /\ "C" \in env0.misa /\ ReservedC(FirstWord)) => RaisedIllegal

\* bits pos .. pos+len-1 of a halfword
B(h, pos, len) == (h \div Pow2(pos)) % Pow2(len)

\* a field of the given width whose top bit is set, widened to `to` bits
Widen(v, width, to) == IF v >= Pow2(width - 1) THEN v + (Pow2(to) - Pow2(width)) ELSE v

\* the RV64C encodings that the ISA reserves, operands included
ReservedOperandsC(h) ==
    LET q == h % 4
        f3 == B(h, 13, 3)
    IN  \/ q = 0 /\ (f3 = 4 \/ (f3 = 0 /\ B(h, 5, 8) = 0))
        \/ q = 1 /\ f3 = 1 /\ B(h, 7, 5) = 0
        \/ q = 1 /\ f3 = 3 /\ B(h, 12, 1) = 0 /\ B(h, 2, 5) = 0
        \/ q = 1 /\ f3 = 4 /\ B(h, 10, 2) = 3 /\ B(h, 12, 1) = 1 /\ B(h, 5, 2) \in {2, 3}
        \/ q = 2 /\ f3 \in {2, 3} /\ B(h, 7, 5) = 0
        \/ q = 2 /\ f3 = 4 /\ B(h, 12, 1) = 0 /\ B(h, 2, 5) = 0 /\ B(h, 7, 5) = 0

\* the 32-bit instruction that the ISA gives as the expansion of the
\* compressed instruction h (RV64C, with the D extension)
Expand(h) ==
    LET q == h % 4
        f3 == B(h, 13, 3)
        b12 == B(h, 12, 1)
        r == B(h, 7, 5)
        rs2 == B(h, 2, 5)
        rp1 == 8 + B(h, 7, 3)
        rp2 == 8 + B(h, 2, 3)
        imm6 == B(h, 2, 5) + (32 * b12)
        uimm_w == (4 * B(h, 6, 1)) + (8 * B(h, 10, 3)) + (64 * B(h, 5, 1))
        uimm_d == (8 * B(h, 10, 3)) + (64 * B(h, 5, 2))
        uimm_wsp == (4 * B(h, 4, 3)) + (32 * b12) + (64 * B(h, 2, 2))
        uimm_dsp == (8 * B(h, 5, 2)) + (32 * b12) + (64 * B(h, 2, 3))
        j_off == (2 * B(h, 3, 3)) + (16 * B(h, 11, 1)) + (32 * B(h, 2, 1))
                 + (64 * B(h, 7, 1)) + (128 * B(h, 6, 1)) + (256 * B(h, 9, 2))
                 + (1024 * B(h, 8, 1)) + (2048 * b12)
        b_off == (2 * B(h, 3, 2)) + (8 * B(h, 10, 2)) + (32 * B(h, 2, 1))
                 + (64 * B(h, 5, 2)) + (256 * b12)
        sp16 == (16 * B(h, 6, 1)) + (32 * B(h, 2, 1)) + (64 * B(h, 5, 1))
                + (128 * B(h, 3, 2)) + (512 * b12)
    IN  CASE q = 0 /\ f3 = 0 ->
               Enc_I(19, 0, rp2, 2, (4 * B(h, 6, 1)) + (8 * B(h, 5, 1))
                                    + (16 * B(h, 11, 2)) + (64 * B(h, 7, 4)))
          [] q = 0 /\ f3 = 1 -> Enc_I(7, 3, rp2, rp1, uimm_d)
          [] q = 0 /\ f3 = 2 -> Enc_I(3, 2, rp2, rp1, uimm_w)
          [] q = 0 /\ f3 = 3 -> Enc_I(3, 3, rp2, rp1, uimm_d)
          [] q = 0 /\ f3 = 5 -> Enc_S(39, 3, rp1, rp2, uimm_d)
          [] q = 0 /\ f3 = 6 -> Enc_S(35, 2, rp1, rp2, uimm_w)
          [] q = 0 /\ f3 = 7 -> Enc_S(35, 3, rp1, rp2, uimm_d)
          [] q = 1 /\ f3 = 0 -> Enc_I(19, 0, r, r, Widen(imm6, 6, 12))
          [] q = 1 /\ f3 = 1 -> Enc_I(27, 0, r, r, Widen(imm6, 6, 12))
          [] q = 1 /\ f3 = 2 -> Enc_I(19, 0, r, 0, Widen(imm6, 6, 12))
          [] q = 1 /\ f3 = 3 ->
               IF r = 2 THEN Enc_I(19, 0, 2, 2, Widen(sp16, 10, 12))
               ELSE Enc_U(55, r, Widen(imm6, 6, 20))
          [] q = 1 /\ f3 = 4 /\ B(h, 10, 2) = 0 -> Enc_I(19, 5, rp1, rp1, imm6)
          [] q = 1 /\ f3 = 4 /\ B(h, 10, 2) = 1 -> Enc_I(19, 5, rp1, rp1, 1024 + imm6)
          [] q = 1 /\ f3 = 4 /\ B(h, 10, 2) = 2 -> Enc_I(19, 7, rp1, rp1, Widen(imm6, 6, 12))
          [] q = 1 /\ f3 = 4 /\ B(h, 10, 2) = 3 ->
               CASE b12 = 0 /\ B(h, 5, 2) = 0 -> Enc_R(51, 0, 32, rp1, rp1, rp2)
                 [] b12 = 0 /\ B(h, 5, 2) = 1 -> Enc_R(51, 4, 0, rp1, rp1, rp2)
                 [] b12 = 0 /\ B(h, 5, 2) = 2 -> Enc_R(51, 6, 0, rp1, rp1, rp2)
                 [] b12 = 0 /\ B(h, 5, 2) = 3 -> Enc_R(51, 7, 0, rp1, rp1, rp2)
                 [] b12 = 1 /\ B(h, 5, 2) = 0 -> Enc_R(59, 0, 32, rp1, rp1, rp2)
                 [] OTHER -> Enc_R(59, 0, 0, rp1, rp1, rp2)
          [] q = 1 /\ f3 = 5 -> Enc_J(111, 0, Widen(j_off, 12, 21))
          [] q = 1 /\ f3 = 6 -> Enc_B(99, 0, rp1, 0, Widen(b_off, 9, 13))
          [] q = 1 /\ f3 = 7 -> Enc_B(99, 1, rp1, 0, Widen(b_off, 9, 13))
          [] q = 2 /\ f3 = 0 -> Enc_I(19, 1, r, r, imm6)
          [] q = 2 /\ f3 = 1 -> Enc_I(7, 3, r, 2, uimm_dsp)
          [] q = 2 /\ f3 = 2 -> Enc_I(3, 2, r, 2, uimm_wsp)
          [] q = 2 /\ f3 = 3 -> Enc_I(3, 3, r, 2, uimm_dsp)
          [] q = 2 /\ f3 = 4 ->
               CASE b12 = 0 /\ rs2 = 0 -> Enc_I(103, 0, 0, r, 0)
                 [] b12 = 0 -> Enc_R(51, 0, 0, r, 0, rs2)
                 [] rs2 = 0 /\ r = 0 -> Enc_I(115, 0, 0, 0, 1)
                 [] rs2 = 0 -> Enc_I(103, 0, 1, r, 0)
                 [] OTHER -> Enc_R(51, 0, 0, r, r, rs2)
          [] q = 2 /\ f3 = 5 -> Enc_S(39, 3, 2, rs2, (8 * B(h, 10, 3)) + (64 * B(h, 7, 3)))
          [] q = 2 /\ f3 = 6 -> Enc_S(35, 2, 2, rs2, (4 * B(h, 9, 4)) + (64 * B(h, 7, 2)))
          [] OTHER -> Enc_S(35, 3, 2, rs2, (8 * B(h, 10, 3)) + (64 * B(h, 7, 3)))

\* the compressed instruction h links: C.JALR
LinksC(h) == h % 4 = 2 /\ B(h, 13, 3) = 4 /\ B(h, 12, 1) = 1 /\ B(h, 2, 5) = 0 /\ B(h, 7, 5) # 0

\* the first instruction's expansion, translated as a block of its own at the
\* same address and run from the same state
RunExpansion ==
    RunTB(gen_intermediate_code(env0, TranslationBlock(job.code.base), 1,
                                [base |-> job.code.base,
                                 half |-> Halves(Expand(FirstWord.lo))]).ir,
          env0)

\* the run of the compressed instruction and the run m of its expansion
\* differ only in the length added to pc and in the link address
SameEffect(m) ==
    /\ (m.exit = "exception") = (run.exit = "exception")
    /\ m.ub = run.ub
    /\ m.helpers = run.helpers
    /\ m.env.exception_index = env.exception_index
    /\ m.env.badaddr = env.badaddr
    /\ m.env.fpr = env.fpr
    /\ m.env.mem = env.mem
    /\ \/ m.env.pc = env.pc
       \/ /\ env.pc = WAdd(job.code.base, FromNat(2))
          /\ m.env.pc = WAdd(job.code.base, FromNat(4))
    /\ \A x \in 0..31 :
          \/ m.env.gpr[x] = env.gpr[x]
          \/ /\ x = 1
             /\ LinksC(FirstWord.lo)
             /\ env.gpr[x] = WAdd(job.code.base, FromNat(2))
             /\ m.env.gpr[x] = WAdd(job.code.base, FromNat(4))

\* C10: a compressed instruction and its 32-bit expansion, translated and
\* run from the same state, have the same effect on registers, memory and
\* exceptions, up to the instruction length in the next pc and the link
\* address.
C10_CompressedExpansion ==
    (RanOne /\ max_insns = 1 /\ "C" \in env0.misa /\ IsCompressed(FirstWord)
        /\ FirstWord.lo # 0 /\ ~ReservedOperandsC(FirstWord.lo))
       => \A m \in {RunExpansion} : SameEffect(m)

\* c.jalr x1 and jalr x1, 0(x1): the same jump, links of pc + 2 and pc + 4
C10_Witness ==
    /\ RanOne
    /\ max_insns = 1
    /\ FirstWord = [lo |-> 36994, hi |-> 0]
    /\ Expand(36994) = Enc_I(103, 0, 1, 1, 0)
    /\ env.gpr[1] = WAdd(job.code.base, FromNat(2))
    /\ env.pc = <<4096, 1, 0, 0>>
    /\ RunExpansion.env.gpr[1] = WAdd(job.code.base, FromNat(4))
    /\ RunExpansion.env.pc = env.pc

\* C11: while a block is translated again in restore mode (search_pc set), its
\* size never exceeds the original_size that the first translation left, and
\* original_size keeps that value.
C11_RestoreBound ==
    tb.search_pc # 0 =>
        /\ tb.size <= tb.original_size
        /\ tb.original_size = job.first.original_size

\* a block cut after one instruction by its budget is translated again with a
\* larger budget and stops at the same size
C11_Witness ==
    /\ tb.search_pc # 0
    /\ phase = "translated"
    /\ job.first.icount = 1
    /\ job.first.original_size = 4
    /\ max_insns = MaxInsns
    /\ job.code.half = Halves(Enc_I(19, 0, 3, 1, 5)) \o Halves(Enc_I(19, 0, 3, 1, 5))
    /\ tb.icount = 1
    /\ tb.size = 4
    /\ ctx.bstate = BS_STOP
    /\ env.singlestep_enabled = 0

\* the budget that counts: at least one instruction is always translated
Budget == IF max_insns < 1 THEN 1 ELSE max_insns

InPage(pc) == WLtu(WSub(pc, PageOf(tb.pc)), FromNat(TARGET_PAGE_SIZE))

\* the loop was left with the budget used up, by neither a branch, a
\* breakpoint, single-step nor the end of the page
StoppedByBudget ==
    /\ phase \in {"end", "translated", "executed"}
    /\ tb.icount >= 1
    /\ tb.icount >= max_insns
    /\ env.singlestep_enabled = 0
    /\ InPage(ctx.pc)
    /\ ctx.bstate # BS_BRANCH

\* the block ends in gen_goto_tb(0, dest) for a destination on its own page
EndsInGotoTb0(ir, dest) ==
    /\ Len(ir) >= 3
    /\ SubSeq(ir, Len(ir) - 2, Len(ir))
          = <<Ins("goto_tb", "", NoArg, NoArg, NoArg, Zero, 0),
              GI("movi_tl", cpu_pc, NoArg, dest), gen_exit_tb(1)>>

\* C12: the driver loop goes round again only while fewer than
\* max(1, max_insns) instructions are translated, so it ends after at most
\* that many passes with tb.icount <= max(1, max_insns); a loop left because
\* the budget is used up leaves bstate at STOP and the block ends in
\* gen_goto_tb(0, pc) for the address after the last translated instruction.
C12_BudgetTermination ==
    /\ tb.icount <= Budget
    /\ phase = "loop" => tb.icount < Budget
    /\ StoppedByBudget =>
          /\ ctx.bstate = BS_STOP
          /\ ctx.pc = WAdd(tb.pc, FromNat(tb.size))
          /\ Translated => EndsInGotoTb0(tb.ir, ctx.pc)

\* two of three instructions translated under a budget of two
C12_Witness ==
    /\ phase = "translated"
    /\ max_insns = 2
    /\ tb.icount = 2
    /\ job.code.half = Halves(Enc_I(19, 0, 3, 1, 5)) \o <<133>>
    /\ StoppedByBudget
    /\ tb.size = 6
    /\ EndsInGotoTb0(tb.ir, <<4102, 0, 0, 0>>)

\* the instruction words of a block of n instructions that starts at pc
RECURSIVE BlockWords(_, _)
BlockWords(pc, n) ==
    IF n = 0 THEN <<>>
    ELSE LET w == ldl_code(job.code, pc)
         IN  <<w>> \o BlockWords(WAdd(pc, FromNat(IF IsCompressed(w) THEN 2 ELSE 4)), n - 1)

\* CSRRW, CSRRS, CSRRC and their immediate forms
IsCsr(w) == ~IsCompressed(w) /\ Major(w) = 115 /\ Funct3(w) \in {1, 2, 3, 5, 6, 7}

CsrHelpers == {"helper_csrrw", "helper_csrrs", "helper_csrrc"}

\* the block's IR calls a CSR helper, then writes dest to pc and leaves
\* through exit_tb(0), and holds no goto_tb
EndsInCsrExit(ir, dest) ==
    /\ Len(ir) >= 3
    /\ SubSeq(ir, Len(ir) - 1, Len(ir)) = <<GI("movi_tl", cpu_pc, NoArg, dest), gen_exit_tb(0)>>
    /\ \E k \in 1..(Len(ir) - 2) :
          /\ ir[k].op \in CsrHelpers
          /\ \A j \in (k + 1)..(Len(ir) - 2) : ir[j].op = "mov_tl"
    /\ \A k \in 1..Len(ir) : ir[k].op # "goto_tb"

\* C13: a CSR access instruction is the last instruction of its block: the
\* loop is left with bstate at BRANCH, no instruction is translated after
\* it, and the block's IR ends in the helper call, the write of next_pc to
\* pc and exit_tb(0), with no goto_tb; run, the block leaves unchained with
\* pc at the next instruction.
C13_CsrEndsBlock ==
    \A k \in 1..tb.icount :
       IsCsr(BlockWords(tb.pc, tb.icount)[k]) =>
          /\ k = tb.icount
          /\ phase # "loop"
          /\ ctx.bstate = BS_BRANCH
          /\ ctx.pc = WAdd(tb.pc, FromNat(tb.size))
          /\ Translated => EndsInCsrExit(tb.ir, ctx.pc)
          /\ phase = "executed" =>
                /\ ~run.ub
                /\ run.exit = "exit_tb"
                /\ env.pc = ctx.pc

\* an addi and a csrrs under a budget of three: the block holds the two and
\* leaves unchained for the address after the csrrs
C13_Witness ==
    /\ phase = "executed"
    /\ max_insns = 3
    /\ env.singlestep_enabled = 0
    /\ job.code.half = Halves(Enc_I(19, 0, 3, 1, 5)) \o Halves(Enc_I(115, 2, 3, 1, 768))
    /\ tb.icount = 2
    /\ IsCsr(BlockWords(tb.pc, 2)[2])
    /\ run.exit = "exit_tb"
    /\ env.pc = <<4104, 0, 0, 0>>

(***************************************************************************)
(* The vector helper kernel (arch/riscv/vector_helper.c).  In the          *)
(* specifications of this part env is the vector unit's state: the         *)
(* configuration that helper_vsetvl derives and the register file vr, a    *)
(* byte array in which register n starts at byte n * vlenb.  job holds the *)
(* arguments of the helper calls, ctx the position of an element loop.     *)
(***************************************************************************)
MSTATUS_VS == <<1536, 0, 0, 0>>

GET_VTYPE_VLMUL(vtype) == vtype[1] % 8

GET_VTYPE_VSEW(vtype) == (vtype[1] \div 8) % 8

GET_VTYPE_VTA(vtype) == (vtype[1] \div 64) % 2

GET_VTYPE_VMA(vtype) == (vtype[1] \div 128) % 2

\* MIN of a target_ulong and a small number, as a number
MIN(x, n) == IF WLtu(x, FromNat(n)) THEN x[1] ELSE n

\* helper_raise_exception leaves the helper; the state keeps what was written
helper_raise_exception(e, excp) == [env |-> [e EXCEPT !.exception_index = excp], raised |-> TRUE]

require_vec(e) == WAnd(e.mstatus, MSTATUS_VS) # Zero

\* the configuration read from the requested vtype; vflmul is the power of
\* two num / den, vlmax is truncated as the conversion to target_ulong does
vsetvl_config_keeps_vlmax(e, rs2_pass) ==
    LET vlen == e.vlenb * 8
        vsew == Pow2(GET_VTYPE_VSEW(rs2_pass) + 3)
        raw == GET_VTYPE_VLMUL(rs2_pass)
        vlmul == IF raw >= 4 THEN raw - 8 ELSE raw
        vflmul == IF vlmul >= 0 THEN [num |-> Pow2(vlmul), den |-> 1]
                  ELSE [num |-> 1, den |-> Pow2(-vlmul)]
        ceil_vfmul == IF vflmul.num >= vflmul.den THEN [num |-> 1, den |-> 1] ELSE vflmul
        vill == \/ ~(8 * vflmul.num >= vflmul.den /\ vflmul.num <= 8 * vflmul.den)
                \/ vsew * ceil_vfmul.den > ceil_vfmul.num * e.elen
                \/ rs2_pass[1] \div 256 # 0
                \/ <<rs2_pass[2], rs2_pass[3], rs2_pass[4]>> # <<0, 0, 0>>
    IN  [e EXCEPT !.vtype = IF vill THEN WOr(rs2_pass, INT_MIN_W) ELSE rs2_pass,
                  !.vsew = vsew, !.vlmul = raw, !.vflmul = vflmul,
                  !.vlmax = ((vlen \div vsew) * vflmul.num) \div vflmul.den,
                  !.vta = GET_VTYPE_VTA(rs2_pass), !.vma = GET_VTYPE_VMA(rs2_pass),
                  !.vill = IF vill THEN 1 ELSE 0]

vsetvl_config(e, rs2_pass) ==
    LET vlen == e.vlenb * 8
        vsew == Pow2(GET_VTYPE_VSEW(rs2_pass) + 3)
        raw == GET_VTYPE_VLMUL(rs2_pass)
        vlmul == IF raw >= 4 THEN raw - 8 ELSE raw
        vflmul == IF vlmul >= 0 THEN [num |-> Pow2(vlmul), den |-> 1]
                  ELSE [num |-> 1, den |-> Pow2(-vlmul)]
        ceil_vfmul == IF vflmul.num >= vflmul.den THEN [num |-> 1, den |-> 1] ELSE vflmul
        vill == \/ ~(8 * vflmul.num >= vflmul.den /\ vflmul.num <= 8 * vflmul.den)
                \/ vsew * ceil_vfmul.den > ceil_vfmul.num * e.elen
                \/ rs2_pass[1] \div 256 # 0
                \/ <<rs2_pass[2], rs2_pass[3], rs2_pass[4]>> # <<0, 0, 0>>
    IN  [e EXCEPT !.vtype = IF vill THEN WOr(rs2_pass, INT_MIN_W) ELSE rs2_pass,
                  !.vsew = vsew, !.vlmul = raw, !.vflmul = vflmul,
                  !.vlmax = IF vill THEN 0
                            ELSE ((vlen \div vsew) * vflmul.num) \div vflmul.den,
                  !.vta = GET_VTYPE_VTA(rs2_pass), !.vma = GET_VTYPE_VMA(rs2_pass),
                  !.vill = IF vill THEN 1 ELSE 0]

\* the AVL selection without the clamp of the strip-mining case
vsetvl_avl_unclamped(e, prev_csr_vl, rd, rs1, rs1_pass, is_rs1_imm) ==
    IF is_rs1_imm = 1 THEN MIN(rs1_pass, e.vlmax)
    ELSE IF e.vlmax = 0 THEN 0
    ELSE IF rd = 0 /\ rs1 = 0 THEN MIN(FromNat(prev_csr_vl), e.vlmax)
    ELSE IF rs1 = 0 /\ rd # 0 THEN e.vlmax
    ELSE rs1_pass[1]

\* the AVL selection with the vlmax case taken for every rs1 = 0
vsetvl_avl_no_keep(e, prev_csr_vl, rd, rs1, rs1_pass, is_rs1_imm) ==
    IF is_rs1_imm = 1 THEN MIN(rs1_pass, e.vlmax)
    ELSE IF e.vlmax = 0 THEN 0
    ELSE IF rs1 = 0 THEN e.vlmax
    ELSE MIN(rs1_pass, e.vlmax)

\* the new vl, from the configuration already in e
vsetvl_avl(e, prev_csr_vl, rd, rs1, rs1_pass, is_rs1_imm) ==
    IF is_rs1_imm = 1 THEN MIN(rs1_pass, e.vlmax)
    ELSE IF e.vlmax = 0 THEN 0
    ELSE IF rd = 0 /\ rs1 = 0 THEN MIN(FromNat(prev_csr_vl), e.vlmax)
    ELSE IF rs1 = 0 /\ rd # 0 THEN e.vlmax
    ELSE MIN(rs1_pass, e.vlmax)

\* the state after the call, whether it raised, and the value returned
helper_vsetvl(e, rd, rs1, rs1_pass, rs2_pass, is_rs1_imm) ==
    IF ~require_vec(e)
    THEN [env |-> [e EXCEPT !.exception_index = "ILLEGAL_INST"], raised |-> TRUE, ret |-> Zero]
    ELSE LET e1 == vsetvl_config(e, rs2_pass)
             vl == vsetvl_avl(e1, e.vl, rd, rs1, rs1_pass, is_rs1_imm)
         IN  [env |-> [e1 EXCEPT !.vl = vl, !.vstart = 0], raised |-> FALSE,
              ret |-> FromNat(vl)]

\* the first byte of vector register x in the register file
V(e, x) == x * e.vlenb

\* a register number that is no multiple of the register group size
V_IDX_INVALID(e, n) == e.vlmul \in 1..3 /\ n % Pow2(e.vlmul) # 0

\* byte k (0 = least significant) of a word
ByteOf(w, k) == (w[(k \div 2) + 1] \div (IF k % 2 = 1 THEN 256 ELSE 1)) % 256

\* ((uintN_t *)V(r))[i] for N = eew, zero-extended
LoadElem(e, r, i, eew) ==
    LET n == eew \div 8
        b(k) == IF k < n THEN e.vr[V(e, r) + (i * n) + k] ELSE 0
    IN  <<b(0) + (256 * b(1)), b(2) + (256 * b(3)), b(4) + (256 * b(5)),
          b(6) + (256 * b(7))>>

\* ((uintN_t *)V(r))[i] = w: the low eew bits of w are stored
StoreElem(e, r, i, eew, w) ==
    LET n == eew \div 8
        at == V(e, r) + (i * n)
    IN  [e EXCEPT !.vr = [k \in DOMAIN e.vr |->
                            IF k >= at /\ k < at + n THEN ByteOf(w, k - at) ELSE e.vr[k]]]

\* !!(V(r)[i >> 3] & (1 << (i & 0x7)))
MaskBit(e, r, i) == (e.vr[V(e, r) + (i \div 8)] \div Pow2(i % 8)) % 2

\* conversion of a value to the unsigned type of eew bits
Trunc(w, eew) ==
    CASE eew = 8 -> <<w[1] % 256, 0, 0, 0>>
      [] eew = 16 -> <<w[1], 0, 0, 0>>
      [] eew = 32 -> <<w[1], w[2], 0, 0>>
      [] OTHER -> w

\* a + b for operands of the unsigned type of eew bits: types narrower than
\* int are promoted to int and the sum does not wrap, uint32_t and uint64_t
\* sums wrap at their width
c_add(a, b, eew) == IF eew = 32 THEN Trunc(WAdd(a, b), 32) ELSE WAdd(a, b)

Flag(p) == IF p THEN 1 ELSE 0

\* the element loop position: before the operand checks, or at element i
LoopEntry == [at |-> "entry", i |-> 0, di |-> 0, log |-> <<>>]

\* one step of an element helper: the operand checks on entry, then one
\* element per step from index first on (r is the state and position after
\* the body for element c.i), then the return
ElementLoop(e, c, invalid, first, r) ==
    IF c.at = "entry"
    THEN IF invalid
         THEN [env |-> helper_raise_exception(e, "ILLEGAL_INST").env, ctx |-> c,
               phase |-> "raised"]
         ELSE [env |-> e, ctx |-> [c EXCEPT !.at = "loop", !.i = first], phase |-> "vloop"]
    ELSE IF c.i < e.vl
         THEN IF e.vsew \in {8, 16, 32, 64}
              THEN [env |-> r.env, ctx |-> [r.ctx EXCEPT !.i = c.i + 1], phase |-> "vloop"]
              ELSE [env |-> helper_raise_exception(r.env, "ILLEGAL_INST").env, ctx |-> r.ctx,
                    phase |-> "raised"]
         ELSE [env |-> e, ctx |-> c, phase |-> "returned"]

\* an element written to v[vd]
ElemWrite(e, c, vd, i, w) == [env |-> StoreElem(e, vd, i, e.vsew, w), ctx |-> c]

helper_vmv_ivi(e, c, vd, imm) ==
    ElementLoop(e, c, V_IDX_INVALID(e, vd), e.vstart, ElemWrite(e, c, vd, c.i, imm))

helper_vmv_ivv(e, c, vd, vs1) ==
    ElementLoop(e, c, V_IDX_INVALID(e, vd) \/ V_IDX_INVALID(e, vs1), e.vstart,
                ElemWrite(e, c, vd, c.i, LoadElem(e, vs1, c.i, e.vsew)))

helper_vmerge_ivv(e, c, vd, vs2, vs1) ==
    ElementLoop(e, c,
                V_IDX_INVALID(e, vd) \/ V_IDX_INVALID(e, vs2) \/ V_IDX_INVALID(e, vs1),
                e.vstart,
                ElemWrite(e, c, vd, c.i,
                          IF MaskBit(e, 0, c.i) = 0 THEN LoadElem(e, vs2, c.i, e.vsew)
                          ELSE LoadElem(e, vs1, c.i, e.vsew)))

helper_vmerge_ivi(e, c, vd, vs2, rs1) ==
    ElementLoop(e, c, V_IDX_INVALID(e, vd) \/ V_IDX_INVALID(e, vs2), e.vstart,
                ElemWrite(e, c, vd, c.i,
                          IF MaskBit(e, 0, c.i) = 0 THEN LoadElem(e, vs2, c.i, e.vsew)
                          ELSE rs1))

helper_vcompress_mvv(e, c, vd, vs2, vs1) ==
    ElementLoop(e, c,
                e.vstart # 0 \/ V_IDX_INVALID(e, vd) \/ V_IDX_INVALID(e, vs2)
                    \/ V_IDX_INVALID(e, vs1),
                0,
                IF MaskBit(e, vs1, c.i) = 0 THEN [env |-> e, ctx |-> c]
                ELSE [env |-> StoreElem(e, vd, c.di, e.vsew, LoadElem(e, vs2, c.i, e.vsew)),
                      ctx |-> [c EXCEPT !.di = @ + 1]])

helper_vadc_vvm(e, c, vd, vs2, vs1) ==
    ElementLoop(e, c,
                V_IDX_INVALID(e, vd) \/ V_IDX_INVALID(e, vs2) \/ V_IDX_INVALID(e, vs1), 0,
                ElemWrite(e, c, vd, c.i,
                          WAdd(WAdd(LoadElem(e, vs2, c.i, e.vsew),
                                    LoadElem(e, vs1, c.i, e.vsew)),
                               FromNat(MaskBit(e, 0, c.i)))))

helper_vsbc_vvm(e, c, vd, vs2, vs1) ==
    ElementLoop(e, c,
                V_IDX_INVALID(e, vd) \/ V_IDX_INVALID(e, vs2) \/ V_IDX_INVALID(e, vs1), 0,
                ElemWrite(e, c, vd, c.i,
                          WSub(WSub(LoadElem(e, vs2, c.i, e.vsew),
                                    LoadElem(e, vs1, c.i, e.vsew)),
                               FromNat(MaskBit(e, 0, c.i)))))

helper_vadc_vi(e, c, vd, vs2, rs1) ==
    ElementLoop(e, c, V_IDX_INVALID(e, vd) \/ V_IDX_INVALID(e, vs2), 0,
                ElemWrite(e, c, vd, c.i,
                          WAdd(WAdd(LoadElem(e, vs2, c.i, e.vsew), rs1),
                               FromNat(MaskBit(e, 0, c.i)))))

helper_vsbc_vi(e, c, vd, vs2, rs1) ==
    ElementLoop(e, c, V_IDX_INVALID(e, vd) \/ V_IDX_INVALID(e, vs2), 0,
                ElemWrite(e, c, vd, c.i,
                          WSub(WSub(LoadElem(e, vs2, c.i, e.vsew), rs1),
                               FromNat(MaskBit(e, 0, c.i)))))

\* a write to byte i >> 3 of v[vd], as the log of a mask helper records it
MaskEvent(ev, i, bit) == [ev |-> ev, byte |-> i \div 8, i |-> i, bit |-> bit]

\* the byte of the mask is cleared at every element
mask_zero_every(e, c, vd, i) ==
    [env |-> [e EXCEPT !.vr[V(e, vd) + (i \div 8)] = 0],
     ctx |-> [c EXCEPT !.log = Append(@, MaskEvent("zero", i, 0))]]

\* if (!(i & 0x7)) V(vd)[i >> 3] = 0
mask_zero(e, c, vd, i) ==
    IF i % 8 = 0
    THEN [env |-> [e EXCEPT !.vr[V(e, vd) + (i \div 8)] = 0],
          ctx |-> [c EXCEPT !.log = Append(@, MaskEvent("zero", i, 0))]]
    ELSE [env |-> e, ctx |-> c]

\* V(vd)[i >> 3] |= bit << (i & 0x7)
mask_or(r, vd, i, bit) ==
    [env |-> [r.env EXCEPT !.vr[V(r.env, vd) + (i \div 8)] =
                              IF bit = 1 /\ (@ \div Pow2(i % 8)) % 2 = 0
                              THEN @ + Pow2(i % 8) ELSE @],
     ctx |-> [r.ctx EXCEPT !.log = Append(@, MaskEvent("or", i, bit))]]

helper_vmadc_vv(e, c, vd, vs2, vs1) ==
    LET z == mask_zero(e, c, vd, c.i)
        a == LoadElem(z.env, vs2, c.i, e.vsew)
        b == LoadElem(z.env, vs1, c.i, e.vsew)
    IN  ElementLoop(e, c, V_IDX_INVALID(e, vs2) \/ V_IDX_INVALID(e, vs1), 0,
                    mask_or(z, vd, c.i, Flag(WLtu(c_add(a, b, e.vsew), a))))

helper_vmadc_vvm(e, c, vd, vs2, vs1) ==
    LET z == mask_zero(e, c, vd, c.i)
        carry == MaskBit(z.env, 0, c.i)
        a == LoadElem(z.env, vs2, c.i, e.vsew)
        ab == Trunc(WAdd(a, LoadElem(z.env, vs1, c.i, e.vsew)), e.vsew)
    IN  ElementLoop(e, c, V_IDX_INVALID(e, vs2) \/ V_IDX_INVALID(e, vs1), 0,
                    mask_or(z, vd, c.i,
                            Flag(WLtu(ab, a)
                                 \/ (carry = 1 /\ c_add(ab, One, e.vsew) = Zero))))

helper_vmsbc_vv(e, c, vd, vs2, vs1) ==
    LET z == mask_zero(e, c, vd, c.i)
    IN  ElementLoop(e, c, V_IDX_INVALID(e, vs2) \/ V_IDX_INVALID(e, vs1), 0,
                    mask_or(z, vd, c.i,
                            Flag(WLtu(LoadElem(z.env, vs2, c.i, e.vsew),
                                      LoadElem(z.env, vs1, c.i, e.vsew)))))

helper_vmsbc_vvm(e, c, vd, vs2, vs1) ==
    LET z == mask_zero(e, c, vd, c.i)
        borrow == MaskBit(z.env, 0, c.i)
        b == LoadElem(z.env, vs1, c.i, e.vsew)
    IN  ElementLoop(e, c, V_IDX_INVALID(e, vs2) \/ V_IDX_INVALID(e, vs1), 0,
                    mask_or(z, vd, c.i,
                            Flag(WLtu(LoadElem(z.env, vs2, c.i, e.vsew), b)
                                 \/ (borrow = 1 /\ c_add(b, One, e.vsew) = Zero))))

\* rs1 is a target_ulong: the sum and the comparison are made at 64 bits
helper_vmadc_vi(e, c, vd, vs2, rs1) ==
    LET z == mask_zero(e, c, vd, c.i)
        a == LoadElem(z.env, vs2, c.i, e.vsew)
    IN  ElementLoop(e, c, V_IDX_INVALID(e, vs2), 0,
                    mask_or(z, vd, c.i, Flag(WLtu(WAdd(a, rs1), a))))

\* ab is a uint64_t for eew 8, 16 and 64 and a uint32_t for eew 32
helper_vmadc_vim(e, c, vd, vs2, rs1) ==
    LET z == mask_zero(e, c, vd, c.i)
        carry == MaskBit(z.env, 0, c.i)
        a == LoadElem(z.env, vs2, c.i, e.vsew)
        w == IF e.vsew = 32 THEN 32 ELSE 64
        ab == Trunc(WAdd(a, rs1), w)
    IN  ElementLoop(e, c, V_IDX_INVALID(e, vs2), 0,
                    mask_or(z, vd, c.i,
                            Flag(WLtu(ab, a) \/ (carry = 1 /\ c_add(ab, One, w) = Zero))))

helper_vmsbc_vi(e, c, vd, vs2, rs1) ==
    LET z == mask_zero(e, c, vd, c.i)
    IN  ElementLoop(e, c, V_IDX_INVALID(e, vs2), 0,
                    mask_or(z, vd, c.i, Flag(WLtu(LoadElem(z.env, vs2, c.i, e.vsew), rs1))))

helper_vmsbc_vim(e, c, vd, vs2, rs1) ==
    LET z == mask_zero(e, c, vd, c.i)
        borrow == MaskBit(z.env, 0, c.i)
    IN  ElementLoop(e, c, V_IDX_INVALID(e, vs2), 0,
                    mask_or(z, vd, c.i,
                            Flag(WLtu(LoadElem(z.env, vs2, c.i, e.vsew), rs1)
                                 \/ (borrow = 1 /\ WAdd(rs1, One) = Zero))))

\* the helpers that take two vector sources, and those that take a scalar
VectorVV ==
    {"vmv_ivv", "vmerge_ivv", "vcompress_mvv", "vadc_vvm", "vsbc_vvm", "vmadc_vv",
     "vmadc_vvm", "vmsbc_vv", "vmsbc_vvm"}

VectorVI ==
    {"vmv_ivi", "vmerge_ivi", "vadc_vi", "vsbc_vi", "vmadc_vi", "vmadc_vim", "vmsbc_vi",
     "vmsbc_vim"}

\* one step of the helper that job names
helper_step(e, c, j) ==
    CASE j.helper = "vmv_ivi" -> helper_vmv_ivi(e, c, j.vd, j.imm)
      [] j.helper = "vmv_ivv" -> helper_vmv_ivv(e, c, j.vd, j.vs1)
      [] j.helper = "vmerge_ivv" -> helper_vmerge_ivv(e, c, j.vd, j.vs2, j.vs1)
      [] j.helper = "vmerge_ivi" -> helper_vmerge_ivi(e, c, j.vd, j.vs2, j.imm)
      [] j.helper = "vcompress_mvv" -> helper_vcompress_mvv(e, c, j.vd, j.vs2, j.vs1)
      [] j.helper = "vadc_vvm" -> helper_vadc_vvm(e, c, j.vd, j.vs2, j.vs1)
      [] j.helper = "vsbc_vvm" -> helper_vsbc_vvm(e, c, j.vd, j.vs2, j.vs1)
      [] j.helper = "vadc_vi" -> helper_vadc_vi(e, c, j.vd, j.vs2, j.imm)
      [] j.helper = "vsbc_vi" -> helper_vsbc_vi(e, c, j.vd, j.vs2, j.imm)
      [] j.helper = "vmadc_vv" -> helper_vmadc_vv(e, c, j.vd, j.vs2, j.vs1)
      [] j.helper = "vmadc_vvm" -> helper_vmadc_vvm(e, c, j.vd, j.vs2, j.vs1)
      [] j.helper = "vmsbc_vv" -> helper_vmsbc_vv(e, c, j.vd, j.vs2, j.vs1)
      [] j.helper = "vmsbc_vvm" -> helper_vmsbc_vvm(e, c, j.vd, j.vs2, j.vs1)
      [] j.helper = "vmadc_vi" -> helper_vmadc_vi(e, c, j.vd, j.vs2, j.imm)
      [] j.helper = "vmadc_vim" -> helper_vmadc_vim(e, c, j.vd, j.vs2, j.imm)
      [] j.helper = "vmsbc_vi" -> helper_vmsbc_vi(e, c, j.vd, j.vs2, j.imm)
      [] j.helper = "vmsbc_vim" -> helper_vmsbc_vim(e, c, j.vd, j.vs2, j.imm)

\* the vector unit after reset, with VS enabled or not: all fields zero
VectorReset(vlenb, elen, mstatus) ==
    [mstatus |-> mstatus, vl |-> 0, vtype |-> Zero, vsew |-> 0, vlmul |-> 0,
     vflmul |-> [num |-> 0, den |-> 1], vlmax |-> 0, vstart |-> 0, vill |-> 0, vta |-> 0,
     vma |-> 0, vlenb |-> vlenb, elen |-> elen, vr |-> <<>>,
     exception_index |-> "EXCP_NONE"]

\* vtype of a selected element width (vsew = 0..3 for e8..e64) and vlmul
VType(vsew, vlmul) == FromNat((8 * vsew) + vlmul)

\* requested vtype values: every vsew and vlmul, vta and vma, and values
\* with bits above bit 7
VTypes ==
    { FromNat(b) : b \in 0..63 } \cup { FromNat(b) : b \in {64, 128, 208} }
    \cup { <<256 + 16, 0, 0, 0>>, <<16, 0, 0, 32768>>, <<16, 1, 0, 0>> }

\* application vector lengths, up to the largest target_ulong
Avls ==
    { FromNat(n) : n \in {0, 1, 3, 4, 5, 16, 17, 100} } \cup { INT_MIN_W, AllOnes }

\* states that earlier vsetvl calls and a write of the vstart CSR leave
PriorVector(vlenb, elen) ==
    LET r == VectorReset(vlenb, elen, MSTATUS_VS)
        a == helper_vsetvl(r, 1, 1, FromNat(3), VType(0, 0), 0).env
        b == helper_vsetvl(r, 1, 0, Zero, VType(0, 3), 0).env
    IN  {r, a, [a EXCEPT !.vstart = 2], b, VectorReset(vlenb, elen, Zero)}

VsetvlJobs ==
    { [helper |-> "vsetvl", rd |-> r[1], rs1 |-> r[2], rs1_pass |-> avl, rs2_pass |-> vt,
       is_rs1_imm |-> imm] :
         r \in {<<0, 0>>, <<0, 6>>, <<5, 0>>, <<5, 6>>}, avl \in Avls, vt \in VTypes,
         imm \in {0, 1} }

\* the register file holds VRegs registers of vlenb bytes
VRegs == 8

\* a register file with v0 filled with byte m, group vd with byte d, group
\* vs2 with byte a (or with the bytes 251, ..., 255, 0, 1, ... for a = 256) and group
\* vs1 with byte b; a group is two registers
RegFile(vlenb, vd, vs2, vs1, m, d, a, b) ==
    [k \in 0..((VRegs * vlenb) - 1) |->
        LET r == k \div vlenb
        IN  IF r \in {vs2, vs2 + 1} THEN (IF a = 256 THEN (251 + (k - (vs2 * vlenb))) % 256 ELSE a)
            ELSE IF r \in {vs1, vs1 + 1} THEN b
            ELSE IF r = 0 THEN m
            ELSE IF r \in {vd, vd + 1} THEN d
            ELSE 17 * r]

\* vtype, avl and vstart of the element jobs: every element width with
\* LMUL 1 and 2, vl at and below vlmax, vstart at 0, inside and beyond vl
ElemConfigs ==
    { [vt |-> VType(c[1], c[2]), avl |-> c[3], vstart |-> c[4]] :
        c \in {<<0, 0, 8, 0>>, <<0, 0, 5, 2>>, <<0, 0, 3, 5>>, <<0, 1, 10, 0>>,
               <<0, 1, 10, 9>>, <<0, 1, 12, 1>>, <<1, 0, 3, 1>>, <<1, 1, 8, 0>>,
               <<2, 0, 2, 0>>, <<2, 1, 3, 1>>, <<3, 0, 1, 0>>, <<3, 1, 2, 1>>} }

\* scalar operands: 0, 1, 15, -1 and -16
Scalars == {Zero, One, FromNat(15), AllOnes, <<65520, 65535, 65535, 65535>>}

\* an element helper call behind vsetvli x5, x6, vtype with x6 = avl and a
\* write of the vstart CSR
ElemJobs ==
    { [helper |-> h, rd |-> 5, rs1 |-> 6, rs1_pass |-> FromNat(c.avl), rs2_pass |-> c.vt,
       is_rs1_imm |-> 0, vstart |-> c.vstart, vd |-> r[1], vs2 |-> r[2], vs1 |-> r[3],
       imm |-> x[1], fill |-> <<x[2], x[3]>>] :
         h \in VectorVV \cup VectorVI, c \in ElemConfigs,
         r \in {<<2, 4, 6>>, <<3, 4, 6>>, <<2, 5, 6>>, <<0, 4, 6>>},
         x \in ({Zero} \X {0, 254, 255, 256} \X {0, 1, 255})
               \cup (Scalars \X {0, 254, 255, 256} \X {0}) }

InitVector ==
    /\ \/ \E j \in VsetvlJobs, vlenb \in {8, 16}, elen \in {32, 64} :
             /\ job = j
             /\ env \in PriorVector(vlenb, elen)
       \/ \E j \in ElemJobs :
             /\ IF j.helper \in VectorVV THEN j.imm = Zero ELSE j.fill[2] = 0
             /\ job = j
             /\ env = [VectorReset(8, 64, MSTATUS_VS) EXCEPT
                         !.vr = RegFile(8, j.vd, j.vs2, j.vs1, 165, 90, j.fill[1],
                                        j.fill[2])]
    /\ env0 = env
    /\ run = [raised |-> FALSE, ret |-> Zero, log |-> <<>>]
    /\ ctx = LoopEntry
    /\ tb = TranslationBlock(Zero)
    /\ max_insns = 0
    /\ phase = "vsetvl"

\* the guest executes vsetvl, vsetvli or vsetivli
Vsetvl ==
    /\ phase = "vsetvl"
    /\ \E r \in {helper_vsetvl(env, job.rd, job.rs1, job.rs1_pass, job.rs2_pass,
                               job.is_rs1_imm)} :
          /\ env' = r.env
          /\ run' = [run EXCEPT !.raised = r.raised, !.ret = r.ret]
          /\ phase' = IF r.raised THEN "raised" ELSE "configured"
    /\ UNCHANGED <<env0, tb, ctx, max_insns, job>>

\* the guest writes the vstart CSR ahead of the vector instruction
WriteVstart ==
    /\ phase = "configured"
    /\ job.helper # "vsetvl"
    /\ env' = [env EXCEPT !.vstart = job.vstart]
    /\ phase' = "ready"
    /\ UNCHANGED <<env0, run, tb, ctx, max_insns, job>>

\* the step of the helper of job from position ctx
HelperStep ==
    \E r \in {helper_step(env, ctx, job)} :
       /\ env' = r.env
       /\ ctx' = r.ctx
       /\ phase' = r.phase
       /\ run' = [run EXCEPT !.raised = (r.phase = "raised")]
       /\ UNCHANGED <<env0, tb, max_insns, job>>

\* the helper is entered and checks its operands
HelperCall == phase = "ready" /\ ctx.at = "entry" /\ HelperStep

\* one pass of the element loop
HelperIter == phase = "vloop" /\ ctx.i < env.vl /\ HelperStep

\* the loop condition fails and the helper returns
HelperReturn == phase = "vloop" /\ ctx.i >= env.vl /\ HelperStep

NextVector == Vsetvl \/ WriteVstart \/ HelperCall \/ HelperIter \/ HelperReturn

SpecVector == InitVector /\ [][NextVector]_vars

\* C14: after helper_vsetvl returns, vl <= vlmax and vstart = 0; and with the
\* same vtype, rd, rs1 and prior state, a larger avl never gives a smaller vl.
C14_VsetvlBound ==
    phase = "configured" =>
        /\ env.vl <= env.vlmax
        /\ env.vstart = 0
        /\ LET e1 == vsetvl_config(env0, job.rs2_pass)
           IN  \A avl \in Avls :
                  \A vl \in {vsetvl_avl(e1, env0.vl, job.rd, job.rs1, avl, job.is_rs1_imm)} :
                     /\ WLtu(job.rs1_pass, avl) => env.vl <= vl
                     /\ WLtu(avl, job.rs1_pass) => vl <= env.vl

\* strip-mining with e8, m1 and avl = 17 on 16-byte registers, from a state
\* with vstart = 2: vl is clamped to vlmax = 16
C14_Witness ==
    /\ phase = "configured"
    /\ job.rs2_pass = VType(0, 0)
    /\ job.rs1_pass = FromNat(17)
    /\ job.rs1 # 0
    /\ job.is_rs1_imm = 0
    /\ env0.vstart = 2
    /\ env.vlenb = 16
    /\ env.vlmax = 16
    /\ env.vl = 16
    /\ env.vstart = 0
    /\ helper_vsetvl(env0, job.rd, job.rs1, FromNat(5), job.rs2_pass, 0).env.vl = 5

\* the smaller of a 64-bit unsigned value and a small number
MinOf(x, n) == IF x[2] = 0 /\ x[3] = 0 /\ x[4] = 0 /\ x[1] <= n THEN x[1] ELSE n

\* the signed value of the three-bit vlmul field
LmulExp == IF GET_VTYPE_VLMUL(job.rs2_pass) >= 4 THEN GET_VTYPE_VLMUL(job.rs2_pass) - 8
           ELSE GET_VTYPE_VLMUL(job.rs2_pass)

\* the vl that the AVL selection table gives for the call of job
TableVl ==
    IF job.is_rs1_imm = 1 THEN MinOf(job.rs1_pass, env.vlmax)
    ELSE IF job.rd = 0 /\ job.rs1 = 0 THEN MinOf(FromNat(env0.vl), env.vlmax)
    ELSE IF job.rs1 = 0 THEN env.vlmax
    ELSE MinOf(job.rs1_pass, env.vlmax)

IllegalVType ==
    \/ LmulExp = -4
    \/ IF LmulExp < 0
       THEN Pow2(GET_VTYPE_VSEW(job.rs2_pass) + 3) * Pow2(-LmulExp) > env0.elen
       ELSE Pow2(GET_VTYPE_VSEW(job.rs2_pass) + 3) > env0.elen
    \/ job.rs2_pass # <<job.rs2_pass[1] % 256, 0, 0, 0>>

\* C16: after helper_vsetvl, vill is set exactly for an illegal vtype; and
\* with vill set, the top bit of vtype is set, vlmax = 0 and vl = 0.
C16_Vill ==
    phase = "configured" =>
        /\ (env.vill # 0) <=> IllegalVType
        /\ env.vill # 0 =>
              /\ env.vtype[4] >= 32768
              /\ env.vlmax = 0
              /\ env.vl = 0

\* e64 with LMUL = 1/2 on ELEN = 64 is illegal, and so the immediate form
\* with avl = 5 leaves vl = 0
C16_Witness ==
    /\ phase = "configured"
    /\ job.rs2_pass = VType(3, 7)
    /\ job.is_rs1_imm = 1
    /\ job.rs1_pass = FromNat(5)
    /\ env.elen = 64
    /\ env.vill = 1
    /\ env.vtype = <<31, 0, 0, 32768>>
    /\ env.vlmax = 0
    /\ env.vl = 0

\* the helpers that write one mask bit per element
MaskHelpers ==
    {"vmadc_vv", "vmadc_vvm", "vmadc_vi", "vmadc_vim", "vmsbc_vv", "vmsbc_vvm", "vmsbc_vi",
     "vmsbc_vim"}

\* the positions in the log of the events ev on mask byte b
EventsOn(ev, b) == { k \in DOMAIN ctx.log : ctx.log[k].ev = ev /\ ctx.log[k].byte = b }

\* C17: in every mask-producing helper, the byte vd[i >> 3] of each group of
\* eight elements processed is set to zero exactly once, before any bit of
\* the group is OR-ed into it; after the helper, each bit i < vl of vd is the
\* result computed for element i.
C17_MaskWriteOrder ==
    (job.helper \in MaskHelpers /\ phase \in {"vloop", "returned"}) =>
        /\ \A b \in 0..VRegs :
              /\ Cardinality(EventsOn("zero", b)) = IF b * 8 < ctx.i THEN 1 ELSE 0
              /\ \A k \in EventsOn("or", b) : \E z \in EventsOn("zero", b) : z < k
        /\ \A i \in 0..(ctx.i - 1) :
              \E k \in EventsOn("or", i \div 8) :
                 /\ ctx.log[k].i = i
                 /\ \A n \in EventsOn("or", i \div 8) : ctx.log[n].i = i => n = k
                 /\ phase = "returned" => MaskBit(env, job.vd, i) = ctx.log[k].bit
        /\ phase = "returned" => ctx.i = env.vl

\* vmsbc.vv v2, v4, v6 at e8, m2 with vl = 10, v4 = 251, ..., 255, 0, 1, ...
\* and v6 = 1, 1, ...: two mask bytes are cleared, and only element 5 borrows
C17_Witness ==
    /\ phase = "returned"
    /\ job.helper = "vmsbc_vv"
    /\ <<job.vd, job.vs2, job.vs1>> = <<2, 4, 6>>
    /\ job.fill = <<256, 1>>
    /\ env.vsew = 8
    /\ env.vl = 10
    /\ Len(ctx.log) = 12
    /\ ctx.log[1].ev = "zero"
    /\ ctx.log[10] = MaskEvent("zero", 8, 0)
    /\ ctx.log[7] = MaskEvent("or", 5, 1)
    /\ env0.vr[V(env, 2)] = 90
    /\ env.vr[V(env, 2)] = 32
    /\ env.vr[V(env, 2) + 1] = 0

\* the largest unsigned value of sew bits
Ones(sew) == Trunc(AllOnes, sew)

\* the second operand of element i at the element width: vs1[i] as the
\* helper found it, or the scalar truncated to SEW bits
SecondOperand(i) ==
    IF job.helper \in VectorVV THEN LoadElem(env0, job.vs1, i, env.vsew)
    ELSE Trunc(job.imm, env.vsew)

\* the carry or borrow that entered element i: bit i of v0 as the helper
\* found it, for the forms that take one
MaskIn(i) == IF job.helper \in {"vmadc_vvm", "vmadc_vim", "vmsbc_vvm", "vmsbc_vim"}
             THEN MaskBit(env0, 0, i) ELSE 0

\* a + b + c carries out of bit sew - 1
CarryOut(a, b, c, sew) ==
    LET ab == Trunc(WAdd(a, b), sew)
    IN  WLtu(ab, a) \/ (c = 1 /\ ab = Ones(sew))

\* C18: for every SEW and every element i < vl, vmadc.vv and vmadc.vi write
\* mask bit i of vd = 1 exactly when the SEW-bit sum of vs2[i] and the second
\* operand carries out of bit SEW - 1, and vmadc.vvm and vmadc.vim exactly
\* when vs2[i] + second operand + carry-in bit v0[i] carries out.
C18_CarryOut ==
    (phase = "returned" /\ job.helper \in {"vmadc_vv", "vmadc_vvm", "vmadc_vi", "vmadc_vim"}) =>
        \A i \in 0..(env.vl - 1) :
           MaskBit(env, job.vd, i)
             = Flag(CarryOut(LoadElem(env0, job.vs2, i, env.vsew), SecondOperand(i), MaskIn(i),
                             env.vsew))

\* C19: for every SEW and every element i < vl, with a = vs2[i] and b the
\* second operand truncated to SEW bits, vmsbc.vvm and vmsbc.vim write mask
\* bit i of vd = 1 exactly when a < b, or the borrow-in bit v0[i] is 1 and b
\* is all-ones at width SEW; vmsbc.vv and vmsbc.vi exactly when a < b.
C19_BorrowOut ==
    (phase = "returned" /\ job.helper \in {"vmsbc_vv", "vmsbc_vvm", "vmsbc_vi", "vmsbc_vim"}) =>
        \A i \in 0..(env.vl - 1) :
           MaskBit(env, job.vd, i)
             = Flag(\/ WLtu(LoadElem(env0, job.vs2, i, env.vsew), SecondOperand(i))
                    \/ MaskIn(i) = 1 /\ SecondOperand(i) = Ones(env.vsew))

\* bit n of byte k of the register file of e
FileBit(e, k, n) == (e.vr[k] \div Pow2(n)) % 2

\* byte k of the register file lies in an element vstart <= i < vl of v[vd]
InBody(k) ==
    /\ k >= V(env, job.vd) + (env.vstart * (env.vsew \div 8))
    /\ k < V(env, job.vd) + (env.vl * (env.vsew \div 8))

\* bit n of byte k is a mask bit vstart <= i < vl of v[vd]
InMaskBody(k, n) ==
    /\ k >= V(env, job.vd)
    /\ ((k - V(env, job.vd)) * 8) + n >= env.vstart
    /\ ((k - V(env, job.vd)) * 8) + n < env.vl

\* C20: every vector element helper (vmv, vmerge, vadc, vsbc, vmadc, vmsbc
\* and their immediate forms) processes exactly the elements vstart <= i < vl:
\* elements or mask bits of v[vd] below vstart or at or above vl, and every
\* other vector register, are left unchanged.
C20_BodyOnly ==
    (phase = "returned" /\ job.helper # "vcompress_mvv") =>
        \A k \in DOMAIN env.vr :
           IF job.helper \in MaskHelpers
           THEN \A n \in 0..7 : InMaskBody(k, n) \/ FileBit(env, k, n) = FileBit(env0, k, n)
           ELSE InBody(k) \/ env.vr[k] = env0.vr[k]

\* ---------------------------------------------------------------------
\* cpu_state_reset
\* ---------------------------------------------------------------------

\* the reset vector and the machine privilege level
RISCV_START_PC == <<4096, 0, 0, 0>>

PRV_M == 3

\* the fields of CPUState that lie before breakpoints and are cleared by
\* the memset, in the order of the assignments that follow it
ResetCleared ==
    [gpr |-> [i \in 0..31 |-> Zero], fpr |-> [i \in 0..31 |-> Zero], pc |-> Zero,
     mstatus |-> Zero, badaddr |-> Zero, load_res |-> Zero, priv |-> 0, misa |-> {},
     misa_mask |-> {}, mhartid |-> Zero, privilege_architecture_1_10 |-> FALSE,
     exception_index |-> "0"]

\* the reset that gives mhartid back as zero
cpu_state_reset_drops_mhartid(e) ==
    [f \in DOMAIN e |->
        CASE f = "privilege_architecture_1_10" -> e.privilege_architecture_1_10
          [] f = "pc" -> RISCV_START_PC
          [] f = "exception_index" -> "EXCP_NONE"
          [] f = "priv" -> PRV_M
          [] f \in {"misa", "misa_mask"} -> e.misa_mask
          [] f \in DOMAIN ResetCleared -> ResetCleared[f]
          [] OTHER -> e[f]]

\* memset(env, 0, offsetof(CPUState, breakpoints)), then the seven
\* assignments; the fields from breakpoints on are not touched
cpu_state_reset(e) ==
    [f \in DOMAIN e |->
        CASE f = "mhartid" -> e.mhartid
          [] f = "privilege_architecture_1_10" -> e.privilege_architecture_1_10
          [] f = "pc" -> RISCV_START_PC
          [] f = "exception_index" -> "EXCP_NONE"
          [] f = "priv" -> PRV_M
          [] f \in {"misa", "misa_mask"} -> e.misa_mask
          [] f \in DOMAIN ResetCleared -> ResetCleared[f]
          [] OTHER -> e[f]]

\* resets applied in a row
MaxResets == 2

\* CPU states ahead of a reset: a machine fresh from allocation, and machines
\* that have run, in any privilege level, with or without a pending
\* exception, breakpoints and single-step
DirtyStates ==
    { [ResetCleared EXCEPT !.gpr = [i \in 0..31 |-> IF i = 0 THEN Zero ELSE g],
                           !.fpr = [i \in 0..31 |-> g], !.pc = pc, !.mstatus = g,
                           !.badaddr = g, !.load_res = g, !.priv = priv, !.misa = misa,
                           !.misa_mask = mask, !.mhartid = hart,
                           !.privilege_architecture_1_10 = arch, !.exception_index = x]
        @@ [breakpoints |-> bp, singlestep_enabled |-> ss] :
          g \in {Zero, <<4660, 0, 0, 32768>>}, pc \in {Zero, RISCV_START_PC, AllOnes},
          priv \in 0..3, misa \in {{}, {"I", "C"}}, mask \in {{}, {"I"}, {"I", "C", "F"}},
          hart \in {Zero, One, AllOnes}, arch \in BOOLEAN,
          x \in {"0", "EXCP_NONE", "ILLEGAL_INST"}, bp \in {{}, {RISCV_START_PC}},
          ss \in {0, 1} }

InitReset ==
    /\ env \in DirtyStates
    /\ env0 = env
    /\ run = [resets |-> 0]
    /\ ctx = LoopEntry
    /\ tb = TranslationBlock(Zero)
    /\ max_insns = 0
    /\ job = [helper |-> "cpu_state_reset"]
    /\ phase = "dirty"

\* the host resets the CPU
Reset ==
    /\ phase \in {"dirty", "reset"}
    /\ run.resets < MaxResets
    /\ env' = cpu_state_reset(env)
    /\ run' = [resets |-> run.resets + 1]
    /\ phase' = "reset"
    /\ UNCHANGED <<env0, ctx, tb, max_insns, job>>

NextReset == Reset

SpecReset == InitReset /\ [][NextReset]_vars

\* the fields that the reset keeps, and those it sets to a value
ResetKept == {"mhartid", "privilege_architecture_1_10", "misa_mask"}

\* C21 as stated: after cpu_state_reset, mhartid, privilege_architecture_1_10
\* and misa_mask have their values from before, pc = RISCV_START_PC, priv = M
\* and every other field before breakpoints (exception_index, whose place in
\* the structure the source does not show, left aside) is zero.
C21_AsStated ==
    phase = "reset" =>
        /\ \A f \in ResetKept : env[f] = env0[f]
        /\ env.pc = RISCV_START_PC
        /\ env.priv = PRV_M
        /\ \A f \in DOMAIN ResetCleared \ (ResetKept \cup {"pc", "priv", "exception_index"}) :
              env[f] = ResetCleared[f]

\* C21: after cpu_state_reset, mhartid, privilege_architecture_1_10 and
\* misa_mask have their values from before, pc = RISCV_START_PC, priv = M,
\* misa = misa_mask, exception_index = EXCP_NONE, every other field before
\* breakpoints is zero and the fields from breakpoints on are unchanged; a
\* second reset changes nothing.
C21_Reset ==
    phase = "reset" =>
        /\ \A f \in ResetKept : env[f] = env0[f]
        /\ env.pc = RISCV_START_PC
        /\ env.priv = PRV_M
        /\ env.misa = env0.misa_mask
        /\ env.exception_index = "EXCP_NONE"
        /\ \A f \in DOMAIN ResetCleared
                      \ (ResetKept \cup {"pc", "priv", "exception_index", "misa"}) :
              env[f] = ResetCleared[f]
        /\ \A f \in DOMAIN env \ DOMAIN ResetCleared : env[f] = env0[f]
        /\ cpu_state_reset(env) = env

\* a hart 1 in user mode with C enabled outside its mask, an exception
\* pending and a breakpoint set, reset twice
C21_Witness ==
    /\ phase = "reset"
    /\ run.resets = 2
    /\ env0.mhartid = One
    /\ env0.priv = 0
    /\ env0.misa = {"I", "C"}
    /\ env0.misa_mask = {"I"}
    /\ env0.exception_index = "ILLEGAL_INST"
    /\ env0.gpr[1] # Zero
    /\ env0.breakpoints # {}
    /\ env.mhartid = One
    /\ env.misa = {"I"}
    /\ env.gpr[1] = Zero
    /\ env.breakpoints = env0.breakpoints

\* ---------------------------------------------------------------------
\* gen_atomic on its own: LR, SC and the AMOs in both widths on memory and
\* register values that cover the signs at bit 31 and bit 63, one after
\* another on the same guest state
\* ---------------------------------------------------------------------

\* values of the memory cell at 0x4000 and of rs2
AtomicSamples ==
    {Zero, FromNat(5), AllOnes, INT_MIN_W, <<0, 32768, 0, 0>>, <<0, 36864, 0, 0>>,
     <<5, 0, 1, 0>>, <<65535, 32767, 65535, 65535>>}

\* funct5 of LR, SC, AMOSWAP, AMOADD, AMOXOR, AMOAND, AMOOR, AMOMIN, AMOMAX,
\* AMOMINU, AMOMAXU, and one that names no instruction
AtomicFunct5 == {2, 3, 1, 0, 4, 12, 8, 16, 20, 24, 28, 5}

\* an atomic instruction: funct5, width (funct3 2 for W, 3 for D) and
\* registers; x2 holds 0x4000 and x5 holds 0x4008
AtomicInsn(f5, f3, rd, rs1) == [opc |-> Opc(47, f3, 4 * f5), rd |-> rd, rs1 |-> rs1, rs2 |-> 4]

\* instruction sequences: every instruction alone, and pairs in which a
\* second LR, SC or AMO follows at the same or at another address
AtomicSeqs ==
    { <<AtomicInsn(f5, f3, rd, 2)>> : f5 \in AtomicFunct5, f3 \in {2, 3, 0}, rd \in {0, 3, 4} }
    \cup { <<AtomicInsn(a[1], a[2], 3, 2), AtomicInsn(b[1], b[2], 6, rs1)>> :
             a \in {<<2, 2>>, <<3, 3>>, <<0, 2>>, <<16, 3>>},
             b \in {<<3, 2>>, <<3, 3>>, <<2, 3>>, <<1, 2>>, <<28, 2>>}, rs1 \in {2, 5} }

InitAtomic ==
    /\ \E m \in AtomicSamples, r \in AtomicSamples :
          env = [CPUState0 EXCEPT !.gpr[4] = r, !.gpr[5] = <<16392, 0, 0, 0>>,
                                  !.mem[<<16384, 0, 0, 0>>] = m]
    /\ env0 = env
    /\ run = NoRun
    /\ tb = TranslationBlock(CodeBase)
    /\ ctx = DisasContext(CodeBase, 0, CodeBase)
    /\ phase = "start"
    /\ max_insns = 1
    /\ \E q \in AtomicSeqs : job = [seq |-> q]

\* the next instruction of the sequence is translated into a block of its own
TranslateAtomic ==
    /\ phase \in {"start", "executed"}
    /\ tb.icount < Len(job.seq)
    /\ phase = "executed" => (~run.ub /\ run.exit = "" /\ env.exception_index = "EXCP_NONE")
    /\ \E i \in {job.seq[tb.icount + 1]} :
          ctx' = gen_atomic(DisasContext(CodeBase, 0, CodeBase), i.opc, i.rd, i.rs1, i.rs2)
    /\ tb' = [tb EXCEPT !.ir = ctx'.ir, !.icount = @ + 1]
    /\ env0' = env
    /\ phase' = "translated"
    /\ UNCHANGED <<env, run, max_insns, job>>

NextAtomic == TranslateAtomic \/ Execute

SpecAtomic == InitAtomic /\ [][NextAtomic]_vars

\* the atomic instruction that ran last, its width in bytes, its address,
\* the memory value it found (sign-extended for W) and the value of rs2
AtomicCur == job.seq[tb.icount]

AtomicF5 == AtomicCur.opc.hi \div 2048

AtomicSize == IF AtomicCur.opc.lo \div 4096 = 2 THEN 4 ELSE 8

AtomicAddr == env0.gpr[AtomicCur.rs1]

AtomicOld == SignExt(MemRead(env0.mem, AtomicAddr, AtomicSize), AtomicSize)

AtomicSrc == env0.gpr[AtomicCur.rs2]

\* a legal LR, SC or AMO has run
AtomicRan(f5s) ==
    /\ phase = "executed"
    /\ AtomicCur.opc.lo \div 4096 \in {2, 3}
    /\ AtomicF5 \in f5s

\* the guest state after the instruction, given rd's value and the value
\* stored (the memory value itself when nothing is to change)
AtomicEffect(rdv, stored) ==
    /\ RanThrough
    /\ env.gpr = IF AtomicCur.rd = 0 THEN env0.gpr ELSE [env0.gpr EXCEPT ![AtomicCur.rd] = rdv]
    /\ env.mem = MemWrite(env0.mem, AtomicAddr, AtomicSize, stored)

\* C22: atomics behave as uncontended in any sequence: LR writes the loaded
\* value to rd and no micro-op writes load_res; SC stores, with or without
\* an LR before it and at any address, and writes 0 to rd; AMOSWAP, AMOADD,
\* AMOXOR, AMOAND and AMOOR leave op(old, rs2) in memory and old in rd.
C22_Uncontended ==
    /\ AtomicRan({2}) => AtomicEffect(AtomicOld, AtomicOld)
    /\ AtomicRan({3}) => AtomicEffect(Zero, AtomicSrc)
    /\ AtomicRan({1}) => AtomicEffect(AtomicOld, AtomicSrc)
    /\ AtomicRan({0}) => AtomicEffect(AtomicOld, WAdd(AtomicOld, AtomicSrc))
    /\ AtomicRan({4}) => AtomicEffect(AtomicOld, WXor(AtomicOld, AtomicSrc))
    /\ AtomicRan({12}) => AtomicEffect(AtomicOld, WAnd(AtomicOld, AtomicSrc))
    /\ AtomicRan({8}) => AtomicEffect(AtomicOld, WOr(AtomicOld, AtomicSrc))
    /\ phase \in {"translated", "executed"} =>
          \A k \in DOMAIN tb.ir : \A o \in {tb.ir[k].d, tb.ir[k].a} : o.k # "load_res"

\* amoadd.w x3, x4, (x2) on memory 0x80000000 with x4 = 0x90000000, then
\* sc.w x6, x4, (x5) at another address with no LR before it
C22_Witness ==
    /\ phase = "executed"
    /\ Len(job.seq) = 2
    /\ tb.icount = 2
    /\ job.seq[1] = AtomicInsn(0, 2, 3, 2)
    /\ job.seq[2] = AtomicInsn(3, 2, 6, 5)
    /\ env.gpr[4] = <<0, 36864, 0, 0>>
    /\ env.gpr[3] = <<0, 32768, 65535, 65535>>
    /\ env.gpr[6] = Zero
    /\ MemRead(env.mem, <<16384, 0, 0, 0>>, 4) = <<0, 4096, 0, 0>>
    /\ MemRead(env.mem, <<16392, 0, 0, 0>>, 4) = <<0, 36864, 0, 0>>
    /\ env0.gpr[6] # Zero

\* an operand of AMOMIN/AMOMAX at the operand width: the low 32 bits for W,
\* sign-extended for the signed and zero-extended for the unsigned forms
AtomicOperand(v) ==
    IF AtomicSize = 8 THEN v ELSE IF AtomicF5 \in {16, 20} THEN Ext32s(v) ELSE Ext32u(v)

\* the minimum or maximum that the instruction is to leave in memory
AtomicMinMax ==
    LET m == AtomicOperand(AtomicOld)
        r == AtomicOperand(AtomicSrc)
        less(x, y) == IF AtomicF5 \in {16, 20} THEN WLt(x, y) ELSE WLtu(x, y)
    IN  IF AtomicF5 \in {16, 24} THEN (IF less(r, m) THEN r ELSE m)
        ELSE (IF less(m, r) THEN r ELSE m)

\* C24: AMOMIN, AMOMAX, AMOMINU and AMOMAXU in both widths leave the old
\* memory value in rd (sign-extended for W) and the minimum or maximum of the
\* memory value and rs2, compared at the operand width, signed for MIN/MAX
\* and unsigned for MINU/MAXU, in memory.
C24_MinMax ==
    AtomicRan({16, 20, 24, 28}) => AtomicEffect(AtomicOld, AtomicMinMax)


(***************************************************************************)
(* The temporary count of the translator.                                  *)
(***************************************************************************)
\* the micro-ops of the block so far that read or write a temporary
TempOps ==
    {i \in 1..Len(ctx.ir) :
        \E o \in {ctx.ir[i].d, ctx.ir[i].a, ctx.ir[i].b, ctx.ir[i].c, ctx.ir[i].e} :
            o.k \in TempNames}

\* C23: after every instruction that disas_insn translates, whatever the
\* opcode word and the guest's features, as many temporaries are live as
\* before it (none, the driver clears the count on entry), so the leak check
\* of the driver never aborts
C23_NoTempLeak ==
    /\ phase # "aborted"
    /\ phase \in {"loop", "end"} => ctx.live = {}

\* an instruction whose micro-ops use temporaries has been translated
C23_Witness ==
    /\ phase = "loop"
    /\ tb.icount >= 1
    /\ TempOps # {}
    /\ ctx.live = {}

(***************************************************************************)
(* The guest pc slot at guest memory accesses.                             *)
(***************************************************************************)
MemoryOps ==
    {"qemu_ld8s", "qemu_ld16s", "qemu_ld32s", "qemu_ld8u", "qemu_ld16u", "qemu_ld32u",
     "qemu_ld64", "qemu_st8", "qemu_st16", "qemu_st32", "qemu_st64"}

\* a value of the pc slot that no movi of the block wrote
PcUnknown == <<>>

\* what the micro-op leaves in the pc slot, given what may be there before it
PcAfter(i, inn) ==
    IF i.d = cpu_pc /\ i.op \notin MemoryOps
    THEN IF i.op = "movi_tl" THEN {i.imm} ELSE {PcUnknown}
    ELSE inn

\* The pairs <<k, v>> with k the index of a guest memory access in ir and v a
\* value that the latest write of the pc slot may have left on a path of ir
\* that reaches k.  cur is what flows into micro-op k from the one before
\* it, pend what branches carry to labels further on (all labels of the
\* emitters lie ahead of their branches).
RECURSIVE PcFlow(_, _, _, _, _)
PcFlow(ir, k, cur, pend, acc) ==
    IF k > Len(ir) THEN acc
    ELSE LET i == ir[k]
             inn == IF i.op = "set_label"
                    THEN cur \cup {p[2] : p \in {q \in pend : q[1] = i.n}}
                    ELSE cur
             out == PcAfter(i, inn)
             leaves == i.op \in {"br", "exit_tb", "helper_raise_exception",
                                 "helper_raise_exception_mbadaddr",
                                 "helper_raise_exception_debug"}
         IN  PcFlow(ir, k + 1,
                    IF leaves THEN {} ELSE out,
                    IF i.op \in {"br", "brcond_tl", "brcondi_tl"}
                    THEN pend \cup {<<i.n, v>> : v \in out}
                    ELSE pend,
                    IF i.op \in MemoryOps THEN acc \cup {<<k, v>> : v \in inn} ELSE acc)

\* the address of the instruction that emitted micro-op k, from the table of
\* instruction starts that the restore translation fills
InsnOf(k) ==
    LET before == {n \in 1..Len(tb.opc_pc) : tb.opc_pc[n][1] < k}
    IN  tb.opc_pc[CHOOSE n \in before : \A o \in before : o <= n][2]

\* the block under translation in restore mode, whose table names the
\* instruction of every micro-op; the pc slot holds the block's address on entry
PcAtAccesses ==
    IF tb.search_pc # 0 /\ phase \in {"loop", "end"}
    THEN PcFlow(ctx.ir, 1, {tb.pc}, {}, {})
    ELSE {}

\* C25: for every instruction that emits a guest memory access (integer and
\* floating-point loads and stores, LR, SC, AMO), on every path of the block's
\* micro-ops that reaches the access the latest write of the pc slot wrote
\* that instruction's address
C25_PcBeforeAccess ==
    \A p \in PcAtAccesses : p[2] = InsnOf(p[1])

(***************************************************************************)
(* Blocks translated for single-stepping.                                  *)
(***************************************************************************)
\* the block ends in the write of v to the pc slot and the raise of EXCP_DEBUG
EndsInStep(ir, v) ==
    /\ Len(ir) >= 2
    /\ ir[Len(ir) - 1] = GI("movi_tl", cpu_pc, NoArg, v)
    /\ ir[Len(ir)].op = "helper_raise_exception_debug"

\* C26: with single-step enabled every block holds at most one guest
\* instruction and no goto_tb, and when that instruction did not set bstate
\* to BS_BRANCH the block ends in the write of ctx.pc to the pc slot followed
\* by the raise of the debug exception
C26_SingleStep ==
    (Translated /\ env.singlestep_enabled # 0)
       => /\ tb.icount <= 1
          /\ \A k \in 1..Len(tb.ir) : tb.ir[k].op # "goto_tb"
          /\ (tb.icount = 1 /\ ctx.bstate # BS_BRANCH) => EndsInStep(tb.ir, ctx.pc)

(***************************************************************************)
(* MULHSU.                                                                 *)
(***************************************************************************)
\* The upper word of the 2*XLEN-bit product of a read as signed and b read as
\* unsigned: the product of |a| and b, negated over all eight limbs when a
\* is negative.
MulhsuResult(a, b) ==
    LET p  == WMulFull(WAbs(a), b)
        lo == <<p[1], p[2], p[3], p[4]>>
        hi == <<p[5], p[6], p[7], p[8]>>
    IN  IF WNegative(a)
        THEN IF lo = Zero THEN WNeg(hi) ELSE WNot(hi)
        ELSE hi

\* C27: the value gen_mulhsu leaves in rd, mulu2(a, b).hi less
\* (sar(a, XLEN - 1) & b) modulo 2^XLEN, is the upper XLEN bits of the
\* product of a as a signed and b as an unsigned number
C27_Mulhsu ==
    (phase = "executed" /\ job.opc = OPC_RISC_MULHSU /\ job.rd # 0)
       => /\ RanThrough
          /\ env.gpr[job.rd] = MulhsuResult(SrcA, SrcB)

\* mulhsu x3, x1, x2 has run with x1 negative and the top bit of x2 set
C27_Witness ==
    /\ phase = "executed"
    /\ job.opc = OPC_RISC_MULHSU
    /\ job.rd = 3
    /\ SrcA = FromInt(-7)
    /\ SrcB = AllOnes
    /\ env.gpr[3] = FromInt(-7)

(***************************************************************************)
(* The driver's bookkeeping of the block.                                  *)
(***************************************************************************)
\* the number of instructions that the guest code holds from byte offset
\* off up to size
RECURSIVE InsnsUpTo(_, _)
InsnsUpTo(off, size) ==
    IF off >= size THEN 0
    ELSE LET w == ldl_code(job.code, WAdd(tb.pc, FromNat(off)))
         IN  1 + InsnsUpTo(off + (IF w.lo % 4 # 3 THEN 2 ELSE 4), size)

\* the last instruction fetched was a compressed one on a guest without RVC
RejectedC == tb.icount >= 1 /\ ctx.opcode.lo % 4 # 3 /\ ~riscv_has_ext(env, "C")

\* the length of the last instruction fetched
LastLength == IF ctx.opcode.lo % 4 = 3 THEN 4 ELSE IF RejectedC THEN 0 ELSE 2

\* C28: after every pass of the driver's loop and in the epilogue, whichever
\* exit was taken (the breakpoint exit included), ctx.pc is tb.pc + tb.size,
\* tb.size - tb.prev_size is the length of the last instruction (4, 2, or 0
\* for a compressed opcode rejected for want of RVC) and tb.icount is the
\* number of instructions translated
C28_Bookkeeping ==
    phase \in {"loop", "end", "translated"}
       => /\ ctx.pc = WAdd(tb.pc, FromNat(tb.size))
          /\ tb.icount >= 1 => tb.size - tb.prev_size = LastLength
          /\ tb.icount = InsnsUpTo(0, tb.size) + (IF RejectedC THEN 1 ELSE 0)

(***************************************************************************)
(* The borrow out of vmsbc with a borrow in.                               *)
(***************************************************************************)
\* a - b - c underflows at any width: a < b + c over the naturals
Underflows(a, b, c) == WLtu(a, b) \/ (c = 1 /\ a = b)

\* C29: for vmsbc.vvm and vmsbc.vim, mask bit i < vl of vd is 1 exactly when
\* the SEW-bit subtraction vs2[i] - operand - borrow_in underflows, that is
\* when vs2[i] < operand + borrow_in with the sum not wrapped (so also when
\* vs2[i] = operand and borrow_in = 1)
C29_Underflow ==
    (phase = "returned" /\ job.helper \in {"vmsbc_vvm", "vmsbc_vim"}) =>
        \A i \in 0..(env.vl - 1) :
           MaskBit(env, job.vd, i)
             = Flag(Underflows(LoadElem(env0, job.vs2, i, env.vsew), SecondOperand(i),
                               MaskIn(i)))

(***************************************************************************)
(* Mask-producing helpers whose destination overlaps a source.             *)
(***************************************************************************)
\* The bit the helper of job computes for element i from the register file
\* as it was when the helper started: the bit of its pass for element i over
\* that file, with the destination moved to v1, which no job reads.
BitFromEntry(i) ==
    LET r == helper_step([env EXCEPT !.vr = env0.vr],
                         [at |-> "loop", i |-> i, di |-> 0, log |-> <<>>],
                         [job EXCEPT !.vd = 1])
    IN  r.ctx.log[Len(r.ctx.log)].bit

\* C30: for every mask-producing helper and every choice of register
\* indices, vd = v0, vd = vs1 and vd = vs2 included, each result bit i < vl
\* is computed from the values v[vs2], v[vs1] and v[0] held before the
\* helper started
C30_EntryValues ==
    (phase = "returned" /\ job.helper \in MaskHelpers) =>
        \A i \in 0..(env.vl - 1) : MaskBit(env, job.vd, i) = BitFromEntry(i)
====
